---- MODULE Spec2Model ----
(***************************************************************************)
(* Multi-tenant RAG service: state-machine model of the HTTP API           *)
(* (app/api), the dependency layer (app/dependencies.py) and the services  *)
(* (app/services).  The relational tables, the upload directory and the    *)
(* shared vector-store collection are the state; one action per route      *)
(* handler, and one action per resumption of a coroutine that was          *)
(* suspended on vector-store I/O.                                          *)
(***************************************************************************)
EXTENDS Integers, Sequences, FiniteSets, TLC

(* ------------------------------ bounds -------------------------------- *)
MaxTenants == 2
MaxUsers == 2
MaxTokens == 1
MaxClock == 40
MaxDocs == 1
MaxRuns == 2
MaxQueries == 2
MaxPoints == 2
MaxTextLen == 4

(* -------------------------- program constants ------------------------- *)
jwt_expire_minutes == 30
jwt_secret_key == "secret"
app_name == "Multi-Tenant RAG System"
default_max_documents == 1000
max_chunk_size == 512
overlap_size == 50

(* ----------------------------- input sets ----------------------------- *)
TenantIds == 1..MaxTenants
UserIds == 1..MaxUsers
DocIds == 1..MaxDocs
Emails == {"x@y.com", "z@y.com"}
Passwords == {"password1"}
Roles == {"admin", "viewer"}
Subdomains == {"None", "acme"}
NoCred == [none |-> TRUE]

VARIABLES
  tenants,   \* tenants table: id -> [subdomain, max_documents, is_active]
  users,     \* tenant_users table: id -> [tenant_id, email, hashed_password, role, is_active]
  tokens,    \* bearer tokens handed out to clients so far
  now,       \* wall clock, minutes
  docs,      \* documents table: id -> [tenant_id, file_path, text, status, total_chunks]
  ids,       \* identifiers handed out: [docs |-> n, runs |-> [document -> n], points |-> n]
  chunks,    \* document_chunks table (set of rows)
  files,     \* paths present under the upload directory
  points,    \* points of the shared vector-store collection
  runs,      \* process_document coroutines scheduled or suspended
  dels,      \* delete_document coroutines suspended on the vector store
  queries,   \* queries table with the query_responses rows attached
  streams,   \* streaming responses handed to clients, in order of creation
  chunker,   \* the chunk_text_for_embedding call under way: arguments and loop locals
  ev         \* the last request served: route, credentials, status, payload

authdb == <<tenants, users>>
docdb == <<docs, ids, chunks, files, points, runs, dels, queries, streams, chunker>>
vars == <<tenants, users, tokens, now, docs, ids, chunks, files, points, runs, dels, queries, streams, chunker, ev>>

\* the identifier whose string form is s (a UUID column bound to a string)
ParseUuid(s, Ids) == CHOOSE i \in Ids : ToString(i) = s

TenantIdArgs == {ToString(t) : t \in TenantIds}
DocIdArgs == {ToString(d) : d \in DocIds}

(* --------------------------- AuthService ------------------------------ *)
hash_password(password) == <<"bcrypt", password>>

verify_password(plain_password, hashed_password) ==
  hashed_password = hash_password(plain_password)

\* jose.jwt.encode / jose.jwt.decode: an HMAC over the payload under a key
jwt_encode(payload, key) == [payload |-> payload, sig |-> [p |-> payload, k |-> key]]

jwt_decode_ok(token, key, t) ==
  /\ token.sig = [p |-> token.payload, k |-> key]
  /\ ~(token.payload.exp < t)

\* permissions is {} for None, {list} for a supplied list
create_access_token(user_id, tenant_id, email, role, permissions, t) ==
  LET perms == IF permissions = {} THEN <<>> ELSE CHOOSE p \in permissions : TRUE
      payload == [user_id |-> user_id, tenant_id |-> tenant_id, email |-> email,
                  role |-> role, permissions |-> perms,
                  exp |-> t + jwt_expire_minutes, iat |-> t,
                  iss |-> app_name, type |-> "access_token"]
  IN jwt_encode(payload, jwt_secret_key)

\* decoding that accepts whatever type the payload names
decode_token_any_type(token, t) ==
  IF ~jwt_decode_ok(token, jwt_secret_key, t)
  THEN [status |-> 401, payload |-> {}]
  ELSE [status |-> 200, payload |-> {token.payload}]

\* [status, payload]: payload is {} when decoding fails
decode_token(token, t) ==
  IF ~jwt_decode_ok(token, jwt_secret_key, t)
  THEN [status |-> 401, payload |-> {}]
  ELSE IF token.payload.type # "access_token"
       THEN [status |-> 401, payload |-> {}]
       ELSE [status |-> 200, payload |-> {token.payload}]

\* the tenant_users rows a token payload selects; active_only is the
\* is_active == True clause of the query
token_user_query(p, active_only) ==
  {u \in DOMAIN users : /\ ToString(u) = p.user_id
                        /\ ToString(users[u].tenant_id) = p.tenant_id
                        /\ active_only => users[u].is_active}

token_user(d, active_only) ==
  IF d.status # 200 THEN [status |-> 401, user |-> {}]
  ELSE IF \E p \in d.payload : p.user_id = "" \/ p.tenant_id = ""
  THEN [status |-> 401, user |-> {}]
  ELSE IF \A p \in d.payload : token_user_query(p, active_only) = {}
  THEN [status |-> 401, user |-> {}]
  ELSE [status |-> 200, user |-> UNION {token_user_query(p, active_only) : p \in d.payload}]

\* the lookup without its is_active filter
get_user_by_token_any_user(token, t) == token_user(decode_token(token, t), FALSE)

\* [status, user]: user is {} when the lookup fails
get_user_by_token(token, t) == token_user(decode_token(token, t), TRUE)

\* the duplicate check made on the email alone
create_user_existing_any_tenant(tenant_id, email) ==
  {u \in DOMAIN users : users[u].email = email}

\* the rows create_user finds for (email, tenant_id)
create_user_existing(tenant_id, email) ==
  {u \in DOMAIN users : users[u].email = email /\ ToString(users[u].tenant_id) = tenant_id}

\* the table after create_user inserted the row
create_user(tenant_id, email, password, role) ==
  users @@ ((Cardinality(DOMAIN users) + 1) :>
              [tenant_id |-> ParseUuid(tenant_id, TenantIds), email |-> email,
               hashed_password |-> hash_password(password),
               role |-> role, is_active |-> TRUE])

\* rows the query of authenticate_user matches; first() returns one of them
authenticate_user_query(email, tenant_identifier) ==
  {u \in DOMAIN users :
     /\ users[u].email = email
     /\ \/ tenant_identifier = "None"
        \/ /\ users[u].tenant_id \in DOMAIN tenants
           /\ tenants[users[u].tenant_id].is_active
           /\ \/ tenants[users[u].tenant_id].subdomain = tenant_identifier
              \/ ToString(users[u].tenant_id) = tenant_identifier}

\* result of authenticate_user when first() returned row u
authenticate_user(u, password) ==
  IF ~verify_password(password, users[u].hashed_password) THEN {}
  ELSE IF ~users[u].is_active THEN {}
  ELSE {u}

RolePermissions(role) ==
  IF role = "admin" THEN <<"read", "write", "delete", "manage">>
  ELSE IF role = "user" THEN <<"read", "write">>
  ELSE <<"read">>

(* --------------------------- TenantService ---------------------------- *)
\* the lookup without the is_active filter
get_tenant_by_id_any(tenant_id) ==
  {t \in DOMAIN tenants : ToString(t) = tenant_id}

\* tenant_id is the string form of the identifier, as the routes pass it
get_tenant_by_id(tenant_id) ==
  {t \in DOMAIN tenants : ToString(t) = tenant_id /\ tenants[t].is_active}

create_tenant_existing(subdomain) ==
  {t \in DOMAIN tenants : subdomain # "None" /\ tenants[t].subdomain = subdomain}

create_tenant(subdomain) ==
  tenants @@ ((Cardinality(DOMAIN tenants) + 1) :>
                [subdomain |-> subdomain, max_documents |-> default_max_documents,
                 is_active |-> TRUE])

AllowedFields == {"name", "subdomain", "llm_provider", "llm_model",
                  "embedding_model", "max_documents", "max_queries_per_day"}

\* the row after update_tenant applied the update map
update_tenant(row, updates) ==
  [f \in DOMAIN row |->
     IF f \in AllowedFields /\ f \in DOMAIN updates THEN updates[f] ELSE row[f]]

deactivate_tenant(tenant_id) ==
  [tenants EXCEPT ![ParseUuid(tenant_id, TenantIds)].is_active = FALSE]

(* --------------------------- dependencies ----------------------------- *)
\* except Exception: whatever get_user_by_token raised becomes a 401
as_unauthorized(r) == IF r.status # 200 THEN [status |-> 401, user |-> {}] ELSE r

\* the dependency letting a request without credentials through as some user
get_current_user_anonymous(credentials, t) ==
  IF credentials = NoCred
  THEN [status |-> 200, user |-> {CHOOSE u \in DOMAIN users : users[u].is_active}]
  ELSE as_unauthorized(get_user_by_token(credentials, t))

\* [status, user]
get_current_user(credentials, t) ==
  IF credentials = NoCred THEN [status |-> 401, user |-> {}]
  ELSE as_unauthorized(get_user_by_token(credentials, t))

active_user(r) ==
  IF r.status # 200 THEN r
  ELSE IF \E u \in r.user : ~users[u].is_active
       THEN [status |-> 400, user |-> {}]
       ELSE r

get_current_active_user(credentials, t) == active_user(get_current_user(credentials, t))

\* the tenant lookup of get_current_tenant for the resolved user
user_tenant(r) == UNION {get_tenant_by_id(ToString(users[u].tenant_id)) : u \in r.user}

current_tenant(r) ==
  IF r.status # 200 THEN [status |-> r.status, user |-> {}, tenant |-> {}]
  ELSE IF user_tenant(r) = {} THEN [status |-> 404, user |-> {}, tenant |-> {}]
  ELSE IF \E x \in user_tenant(r) : ~tenants[x].is_active
       THEN [status |-> 403, user |-> {}, tenant |-> {}]
       ELSE [status |-> 200, user |-> r.user, tenant |-> user_tenant(r)]

\* [status, user, tenant]: CurrentUserDep then CurrentTenantDep
get_current_tenant(credentials, t) == current_tenant(get_current_active_user(credentials, t))

\* the dependency with no role comparison
require_any_role(credentials, t) == get_current_active_user(credentials, t)

admin_role(r) ==
  IF r.status # 200 THEN r
  ELSE IF \E u \in r.user : users[u].role # "admin"
       THEN [status |-> 403, user |-> {}]
       ELSE r

require_admin_role(credentials, t) == admin_role(get_current_active_user(credentials, t))

(* ------------------------------ requests ------------------------------ *)
\* a token re-signed under a key of the client's own
Forged(tok) == [tok EXCEPT !.sig.k = "attacker"]

\* credentials a client presents: none, or a token it was handed
Credentials == {NoCred} \cup tokens

\* the request just served; reached tells whether the handler body ran
Respond(route, credentials, status, arg, reached, data) ==
  ev' = [route |-> route, cred |-> credentials, status |-> status, arg |-> arg,
         reached |-> reached, data |-> data]

\* a step that serves no request (clock, background task, database operator)
Internal(what) ==
  ev' = [route |-> what, cred |-> NoCred, status |-> 0, arg |-> "",
         reached |-> FALSE, data |-> {}]

(* ----------------------------- api/auth.py ---------------------------- *)
api_register_user(tenant_id, email, password, role) ==
  /\ UNCHANGED <<tenants, tokens, now, docdb>>
  /\ IF get_tenant_by_id(tenant_id) = {}
     THEN /\ Respond("POST /auth/register", NoCred, 404, tenant_id, TRUE, {email})
          /\ UNCHANGED users
     ELSE IF create_user_existing(tenant_id, email) # {}
     THEN /\ Respond("POST /auth/register", NoCred, 400, tenant_id, TRUE, {email})
          /\ UNCHANGED users
     ELSE /\ Cardinality(DOMAIN users) < MaxUsers
          /\ users' = create_user(tenant_id, email, password, role)
          /\ Respond("POST /auth/register", NoCred, 200, tenant_id, TRUE, {email})

api_login_user(email, password, tenant_identifier) ==
  /\ UNCHANGED <<tenants, users, now, docdb>>
  /\ LET q == authenticate_user_query(email, tenant_identifier) IN
     IF q = {}
     THEN /\ Respond("POST /auth/login", NoCred, 401, "", TRUE, {})
          /\ UNCHANGED tokens
     ELSE \E u \in q :
            IF authenticate_user(u, password) = {}
            THEN /\ Respond("POST /auth/login", NoCred, 401, "", TRUE, {})
                 /\ UNCHANGED tokens
            ELSE LET tok == create_access_token(ToString(u), ToString(users[u].tenant_id),
                                                users[u].email, users[u].role,
                                                {RolePermissions(users[u].role)}, now)
                 IN /\ tok \in tokens \/ Cardinality(tokens) < MaxTokens
                    /\ tokens' = tokens \cup {tok}
                    /\ Respond("POST /auth/login", NoCred, 200, "", TRUE, {u})

api_get_current_user_info(credentials) ==
  /\ UNCHANGED <<tenants, users, tokens, now, docdb>>
  /\ LET r == get_current_active_user(credentials, now) IN
     Respond("GET /auth/me", credentials, r.status, "", r.status = 200, r.user)

api_refresh_token(credentials) ==
  /\ UNCHANGED <<tenants, users, now, docdb>>
  /\ LET r == get_current_active_user(credentials, now) IN
     IF r.status # 200
     THEN /\ Respond("POST /auth/refresh-token", credentials, r.status, "", FALSE, {})
          /\ UNCHANGED tokens
     ELSE LET u == CHOOSE v \in r.user : TRUE
              tok == create_access_token(ToString(u), ToString(users[u].tenant_id),
                                         users[u].email, users[u].role,
                                         {RolePermissions(users[u].role)}, now)
          IN /\ tok \in tokens \/ Cardinality(tokens) < MaxTokens
             /\ tokens' = tokens \cup {tok}
             /\ Respond("POST /auth/refresh-token", credentials, 200, "", TRUE, r.user)

api_create_tenant(credentials, subdomain) ==
  /\ UNCHANGED <<users, tokens, now, docdb>>
  /\ LET r == require_admin_role(credentials, now) IN
     IF r.status # 200
     THEN /\ Respond("POST /auth/tenants", credentials, r.status, "", FALSE, {})
          /\ UNCHANGED tenants
     ELSE IF create_tenant_existing(subdomain) # {}
     THEN /\ Respond("POST /auth/tenants", credentials, 400, "", TRUE, {})
          /\ UNCHANGED tenants
     ELSE /\ Cardinality(DOMAIN tenants) < MaxTenants
          /\ tenants' = create_tenant(subdomain)
          /\ Respond("POST /auth/tenants", credentials, 200, "", TRUE,
                     {Cardinality(DOMAIN tenants) + 1})

api_list_tenants(credentials) ==
  /\ UNCHANGED <<tenants, users, tokens, now, docdb>>
  /\ LET r == require_admin_role(credentials, now) IN
     IF r.status # 200
     THEN Respond("GET /auth/tenants", credentials, r.status, "", FALSE, {})
     ELSE Respond("GET /auth/tenants", credentials, 200, "", TRUE,
                  {t \in DOMAIN tenants : tenants[t].is_active})

api_get_tenant(credentials, tenant_id) ==
  /\ UNCHANGED <<tenants, users, tokens, now, docdb>>
  /\ LET r == require_admin_role(credentials, now) IN
     IF r.status # 200
     THEN Respond("GET /auth/tenants/{id}", credentials, r.status, tenant_id, FALSE, {})
     ELSE IF get_tenant_by_id(tenant_id) = {}
     THEN Respond("GET /auth/tenants/{id}", credentials, 404, tenant_id, TRUE, {})
     ELSE Respond("GET /auth/tenants/{id}", credentials, 200, tenant_id, TRUE,
                  get_tenant_by_id(tenant_id))

\* the commit of update_tenant fails on the unique index of tenants.subdomain
SubdomainTaken(tenant_id, row) ==
  \E o \in DOMAIN tenants :
    o # tenant_id /\ row.subdomain # "None" /\ tenants[o].subdomain = row.subdomain

api_update_tenant(credentials, tenant_id, tenant_update) ==
  /\ UNCHANGED <<users, tokens, now, docdb>>
  /\ LET r == require_admin_role(credentials, now) IN
     IF r.status # 200
     THEN /\ Respond("PUT /auth/tenants/{id}", credentials, r.status, tenant_id, FALSE, {})
          /\ UNCHANGED tenants
     ELSE IF get_tenant_by_id(tenant_id) = {}
     THEN /\ Respond("PUT /auth/tenants/{id}", credentials, 404, tenant_id, TRUE, {})
          /\ UNCHANGED tenants
     ELSE LET t == ParseUuid(tenant_id, TenantIds)
              row == update_tenant(tenants[t], tenant_update) IN
          IF SubdomainTaken(t, row)
          THEN /\ Respond("PUT /auth/tenants/{id}", credentials, 500, tenant_id, TRUE, {})
               /\ UNCHANGED tenants
          ELSE /\ tenants' = [tenants EXCEPT ![t] = row]
               /\ Respond("PUT /auth/tenants/{id}", credentials, 200, tenant_id, TRUE,
                          {t})

api_deactivate_tenant(credentials, tenant_id) ==
  /\ UNCHANGED <<users, tokens, now, docdb>>
  /\ LET r == require_admin_role(credentials, now) IN
     IF r.status # 200
     THEN /\ Respond("DELETE /auth/tenants/{id}", credentials, r.status, tenant_id, FALSE, {})
          /\ UNCHANGED tenants
     ELSE IF get_tenant_by_id(tenant_id) = {}
     THEN /\ Respond("DELETE /auth/tenants/{id}", credentials, 404, tenant_id, TRUE, {})
          /\ UNCHANGED tenants
     ELSE /\ tenants' = deactivate_tenant(tenant_id)
          /\ Respond("DELETE /auth/tenants/{id}", credentials, 200, tenant_id, TRUE, {})

api_get_tenant_stats(credentials, tenant_id) ==
  /\ UNCHANGED <<tenants, users, tokens, now, docdb>>
  /\ LET r == require_admin_role(credentials, now) IN
     IF r.status # 200
     THEN Respond("GET /auth/tenants/{id}/stats", credentials, r.status, tenant_id, FALSE, {})
     ELSE IF get_tenant_by_id(tenant_id) = {}
     THEN Respond("GET /auth/tenants/{id}/stats", credentials, 404, tenant_id, TRUE, {})
     ELSE Respond("GET /auth/tenants/{id}/stats", credentials, 200, tenant_id, TRUE,
                  get_tenant_by_id(tenant_id))

(* ---------------------------- api/tenants.py -------------------------- *)
api_get_current_tenant_info(credentials) ==
  /\ UNCHANGED <<tenants, users, tokens, now, docdb>>
  /\ LET r == get_current_tenant(credentials, now) IN
     Respond("GET /tenant/info", credentials, r.status, "", r.status = 200, r.tenant)

api_get_current_tenant_stats(credentials) ==
  /\ UNCHANGED <<tenants, users, tokens, now, docdb>>
  /\ LET r == get_current_tenant(credentials, now) IN
     Respond("GET /tenant/stats", credentials, r.status, "", r.status = 200, r.tenant)

(* ---------------------------- environment ----------------------------- *)
\* time passes, observed once a token lifetime is over
Tick ==
  /\ now + jwt_expire_minutes + 1 <= MaxClock
  /\ now' = now + jwt_expire_minutes + 1
  /\ Internal("tick")
  /\ UNCHANGED <<tenants, users, tokens, docdb>>

\* tenant_users.is_active is cleared by a database operator; no route does it
SetUserInactive(u) ==
  /\ u \in DOMAIN users
  /\ users[u].is_active
  /\ users' = [users EXCEPT ![u].is_active = FALSE]
  /\ Internal("user deactivated")
  /\ UNCHANGED <<tenants, tokens, now, docdb>>

(* -------------------------- EmbeddingService -------------------------- *)
Min(a, b) == IF a < b THEN a ELSE b

Max(a, b) == IF a > b THEN a ELSE b

MaxOf(S) == CHOOSE m \in S : \A x \in S : x <= m

RECURSIVE LStrip(_)
LStrip(s) == IF s = <<>> THEN s ELSE IF Head(s) = " " THEN LStrip(Tail(s)) ELSE s

RECURSIVE RStrip(_)
RStrip(s) ==
  IF s = <<>> THEN s
  ELSE IF s[Len(s)] = " " THEN RStrip(SubSeq(s, 1, Len(s) - 1)) ELSE s

\* str.strip()
Strip(s) == RStrip(LStrip(s))

\* one pass through the body of the while loop of chunk_text_for_embedding:
\* the locals after it. Offsets are zero-based, as in the source, so the
\* character at offset i is text[i + 1]
ChunkIteration_restart_at_start(text, mcs, ov, start, chunk_index, acc) ==
  LET end0 == Min(start + mcs, Len(text))
      lo == Max(start + mcs - 100, start)
      spaces == {i \in (lo + 1)..end0 : i < Len(text) /\ text[i + 1] = " "}
      end == IF end0 < Len(text) /\ spaces # {} THEN MaxOf(spaces) ELSE end0
      chunk_text == Strip(SubSeq(text, start + 1, end))
      acc2 == IF chunk_text # <<>>
              THEN Append(acc, [text |-> chunk_text, chunk_index |-> chunk_index,
                                start_char |-> start, end_char |-> end,
                                chunk_size |-> Len(chunk_text)])
              ELSE acc
      index2 == IF chunk_text # <<>> THEN chunk_index + 1 ELSE chunk_index
      start2 == Max(start + mcs - ov, start)
  IN [start |-> start2, chunk_index |-> index2, chunks |-> acc2]

ChunkIteration(text, mcs, ov, start, chunk_index, acc) ==
  LET end0 == Min(start + mcs, Len(text))
      lo == Max(start + mcs - 100, start)
      spaces == {i \in (lo + 1)..end0 : i < Len(text) /\ text[i + 1] = " "}
      end == IF end0 < Len(text) /\ spaces # {} THEN MaxOf(spaces) ELSE end0
      chunk_text == Strip(SubSeq(text, start + 1, end))
      acc2 == IF chunk_text # <<>>
              THEN Append(acc, [text |-> chunk_text, chunk_index |-> chunk_index,
                                start_char |-> start, end_char |-> end,
                                chunk_size |-> Len(chunk_text)])
              ELSE acc
      index2 == IF chunk_text # <<>> THEN chunk_index + 1 ELSE chunk_index
      start2 == Max(start + mcs - ov, end)
  IN [start |-> start2, chunk_index |-> index2, chunks |-> acc2]

\* the while loop of chunk_text_for_embedding, run to its end
RECURSIVE ChunkLoop(_, _, _, _, _, _)
ChunkLoop(text, mcs, ov, start, chunk_index, acc) ==
  IF ~(start < Len(text)) THEN acc
  ELSE LET n == ChunkIteration(text, mcs, ov, start, chunk_index, acc)
       IN IF n.start >= Len(text) THEN n.chunks
          ELSE ChunkLoop(text, mcs, ov, n.start, n.chunk_index, n.chunks)

chunk_text_for_embedding(text, mcs, ov) ==
  IF Len(text) <= mcs
  THEN << [text |-> text, chunk_index |-> 0, start_char |-> 0,
           end_char |-> Len(text), chunk_size |-> Len(text)] >>
  ELSE ChunkLoop(text, mcs, ov, 0, 0, <<>>)

\* embed_text on a list: one unit vector per text, or [[]] when the model fails
embed_text(texts, model_ok) ==
  IF model_ok THEN [i \in 1..Len(texts) |-> <<"vec", texts[i]>>] ELSE << <<>> >>

\* [raised, chunks]: indexing past the single empty vector raises IndexError
embed_document_chunks(chs, model_ok) ==
  IF chs = <<>> THEN [raised |-> FALSE, chunks |-> <<>>]
  ELSE LET embeddings == embed_text([i \in 1..Len(chs) |-> chs[i].text], model_ok) IN
       IF Len(embeddings) < Len(chs) THEN [raised |-> TRUE, chunks |-> <<>>]
       ELSE [raised |-> FALSE,
             chunks |-> [i \in 1..Len(chs) |->
                           [text |-> chs[i].text, chunk_index |-> chs[i].chunk_index,
                            start_char |-> chs[i].start_char, end_char |-> chs[i].end_char,
                            embedding |-> embeddings[i]]]]

(* ------------------------- QdrantVectorService ------------------------ *)
\* a point whose payload lets the caller's metadata win over the overlay
add_documents_point_metadata_wins(tenant_id, doc, uid) ==
  [id |-> uid,
   vector |-> doc.embedding,
   payload |-> doc.metadata @@
               [tenant_id |-> tenant_id, document_id |-> doc.document_id,
                chunk_id |-> doc.chunk_id, text |-> doc.text, source |-> doc.source,
                chunk_index |-> IF "chunk_index" \in DOMAIN doc THEN doc.chunk_index ELSE 0]]

\* the point add_documents builds for one record; uid stands for the uuid4
add_documents_point(tenant_id, doc, uid) ==
  [id |-> uid,
   vector |-> doc.embedding,
   payload |-> [tenant_id |-> tenant_id, document_id |-> doc.document_id,
                chunk_id |-> doc.chunk_id, text |-> doc.text, source |-> doc.source,
                chunk_index |-> IF "chunk_index" \in DOMAIN doc THEN doc.chunk_index ELSE 0]
               @@ doc.metadata]

\* the vector store refuses a batch holding a vector of the wrong dimension
UpsertAccepts(pts) == \A p \in pts : p.vector # <<>>

\* FieldCondition(key, MatchValue(value)) for every entry, all under must
FilterMatches(payload, conditions) ==
  \A key \in DOMAIN conditions : key \in DOMAIN payload /\ payload[key] = conditions[key]

\* the filter built as one map in which a caller's entry replaces the tenant's
search_documents_filter_merged(tenant_id, filter_conditions) ==
  {p \in points :
     FilterMatches(p.payload, filter_conditions @@ [tenant_id |-> tenant_id])}

search_documents_filter(tenant_id, filter_conditions) ==
  {p \in points : /\ p.payload.tenant_id = tenant_id
                  /\ FilterMatches(p.payload, filter_conditions)}

\* cosine similarity of unit vectors, in tenths
Score(query_embedding, p) == IF p.vector = query_embedding THEN 10 ELSE 5

\* the result sets a nearest-neighbour search may return for this request
search_documents(tenant_id, query_embedding, limit, score_threshold, filter_conditions) ==
  LET hits == {p \in search_documents_filter(tenant_id, filter_conditions) :
                 Score(query_embedding, p) >= score_threshold}
  IN {R \in SUBSET hits :
        /\ Cardinality(R) = Min(limit, Cardinality(hits))
        /\ \A r \in R : \A o \in hits \ R :
             Score(query_embedding, r) >= Score(query_embedding, o)}

\* the points delete_document scrolls for and deletes by id
delete_document_points(tenant_id, document_id) ==
  {p \in points : p.payload.tenant_id = tenant_id /\ p.payload.document_id = document_id}

(* --------------------------- DocumentService -------------------------- *)
max_file_size_mb == 10
allowed_file_types == {"pdf", "txt", "docx"}
Texts == { <<" ">>, <<"a", " ", "b">> }
Files == [ext : {"txt"}, size : {3}, text : Texts]
          \cup {[ext |-> "exe", size |-> 3, text |-> <<"a", " ", "b">>],
                [ext |-> "txt", size |-> max_file_size_mb * 1024 * 1024 + 1,
                 text |-> <<"a", " ", "b">>]}

\* the status code _validate_file raises, 200 when it returns
validate_file(file) ==
  IF file.size > max_file_size_mb * 1024 * 1024 THEN 413
  ELSE IF file.ext \notin allowed_file_types THEN 400
  ELSE 200

\* the lookup without its tenant filter
get_document_by_id_only(document_id, tenant_id) ==
  {d \in DOMAIN docs : ToString(d) = document_id}

get_document(document_id, tenant_id) ==
  {d \in DOMAIN docs : ToString(d) = document_id /\ ToString(docs[d].tenant_id) = tenant_id}

\* extraction failures (here: the file is gone) are treated as empty text
extract_text_from_file(d) ==
  IF docs[d].file_path \in files THEN docs[d].text ELSE <<>>

\* the DocumentChunk rows and vector records process_document builds
process_document_rows(d, tenant_id, n, embedded) ==
  {[document_id |-> d, tenant_id |-> tenant_id, run |-> n,
    chunk_index |-> embedded[i].chunk_index, start_char |-> embedded[i].start_char,
    end_char |-> embedded[i].end_char] : i \in 1..Len(embedded)}

process_document_vector_doc(d, chunk_data) ==
  [document_id |-> ToString(d), chunk_id |-> "None", text |-> chunk_data.text,
   embedding |-> chunk_data.embedding, source |-> "original_filename",
   metadata |-> [chunk_index |-> chunk_data.chunk_index,
                 start_char |-> chunk_data.start_char,
                 end_char |-> chunk_data.end_char]]

process_document_points(d, tenant_id, n, embedded) ==
  {add_documents_point(tenant_id, process_document_vector_doc(d, embedded[i]), <<d, n, i>>)
     : i \in 1..Len(embedded)}

SetStatus(d, status) == [docs EXCEPT ![d].status = status]

RemoveKey(f, k) == [x \in DOMAIN f \ {k} |-> f[x]]

NewRun(document_id, tenant_id, n) ==
  [document_id |-> document_id, tenant_id |-> tenant_id, n |-> n, pc |-> "queued",
   rows |-> {}, pts |-> {}]

\* a coroutine between two awaits owns the event loop
Busy == \E r \in runs : r.pc = "started"

\* process_document up to the first commit: lookup, status = "processing"
process_document_begin(r) ==
  /\ r \in runs /\ r.pc = "queued"
  /\ LET found == get_document(r.document_id, r.tenant_id) IN
     IF found = {}
     THEN /\ runs' = runs \ {r}
          /\ UNCHANGED docs
     ELSE /\ docs' = SetStatus(CHOOSE d \in found : TRUE, "processing")
          /\ runs' = (runs \ {r}) \cup {[r EXCEPT !.pc = "started"]}
  /\ Internal("process_document")
  /\ UNCHANGED <<tenants, users, tokens, now, ids, chunks, files, points, dels, queries, streams, chunker>>

\* process_document from text extraction to the await on the vector store
process_document_pipeline(r, model_ok) ==
  /\ r \in runs /\ r.pc = "started"
  /\ LET d == ParseUuid(r.document_id, DocIds)
         text_content == extract_text_from_file(d)
         chs == chunk_text_for_embedding(text_content, max_chunk_size, overlap_size)
         e == embed_document_chunks(chs, model_ok)
     IN IF Strip(text_content) = <<>>
        THEN /\ docs' = SetStatus(d, "failed")
             /\ runs' = runs \ {r}
        ELSE IF e.raised
        THEN /\ docs' = SetStatus(d, "failed")
             /\ runs' = runs \ {r}
        ELSE /\ runs' = (runs \ {r}) \cup
                          {[r EXCEPT !.pc = "upsert",
                                     !.rows = process_document_rows(d, r.tenant_id, r.n, e.chunks),
                                     !.pts = process_document_points(d, r.tenant_id, r.n, e.chunks)]}
             /\ UNCHANGED docs
  /\ Internal("process_document")
  /\ UNCHANGED <<tenants, users, tokens, now, ids, chunks, files, points, dels, queries, streams, chunker>>

\* the rows of the session are flushed by whichever commit comes next; the
\* commit fails as a whole when the documents row is gone
process_document_commit(d, status, rows) ==
  /\ docs' = [docs EXCEPT ![d].status = status,
                          ![d].total_chunks = IF status = "processed"
                                              THEN Cardinality(rows)
                                              ELSE docs[d].total_chunks]
  /\ chunks' = chunks \cup rows

\* add_documents returns and process_document runs to its end
process_document_resume(r, success) ==
  /\ r \in runs /\ r.pc = "upsert"
  /\ success => UpsertAccepts(r.pts)
  /\ points' = IF success THEN points \cup r.pts ELSE points
  /\ LET d == ParseUuid(r.document_id, DocIds) IN
     IF d \in DOMAIN docs
     THEN process_document_commit(d, IF success THEN "processed" ELSE "failed", r.rows)
     ELSE UNCHANGED <<docs, chunks>>
  /\ runs' = runs \ {r}
  /\ Internal("process_document")
  /\ UNCHANGED <<tenants, users, tokens, now, ids, files, dels, queries, streams, chunker>>

(* --------------------------- api/documents.py ------------------------- *)
\* what a failed call of DocumentService.upload_document reports about its file
UploadFailure(file) == {[ext |-> file.ext, size |-> file.size]}

\* fault names the statement of upload_document's try block that raises:
\* the file write, the commit of the new row, or the refresh after the
\* commit; the except branch unlinks the file and raises 500
\* capacity is the number of document identifiers the run may hand out
upload_document_within(credentials, file, metadata_ok, fault, capacity) ==
  /\ UNCHANGED <<tenants, users, tokens, now, chunks, points, dels, queries, streams, chunker>>
  /\ LET r == get_current_tenant(credentials, now)
         v == validate_file(file)
         d == ids.docs + 1
     IN IF r.status # 200
        THEN /\ Respond("POST /documents/upload", credentials, r.status, "", FALSE, {})
             /\ UNCHANGED <<docs, ids, files, runs>>
        ELSE IF ~metadata_ok
        THEN /\ Respond("POST /documents/upload", credentials, 400, "", TRUE, {})
             /\ UNCHANGED <<docs, ids, files, runs>>
        ELSE IF v # 200
        THEN /\ Respond("POST /documents/upload", credentials, v, "", TRUE, UploadFailure(file))
             /\ UNCHANGED <<docs, ids, files, runs>>
        ELSE IF fault \in {"write", "insert"}
        THEN \* the written file is unlinked again before the 500 is raised
             /\ Respond("POST /documents/upload", credentials, 500, "", TRUE, UploadFailure(file))
             /\ UNCHANGED <<docs, ids, files, runs>>
        ELSE LET t == CHOOSE x \in r.tenant : TRUE
                 row == [tenant_id |-> t, file_path |-> d, text |-> file.text,
                         status |-> "uploaded", total_chunks |-> 0]
             IN /\ d <= capacity
                /\ docs' = docs @@ (d :> row)
                /\ IF fault = "refresh"
                   THEN \* the row is committed; the file is unlinked, no task is added
                        /\ ids' = [ids EXCEPT !.docs = d]
                        /\ UNCHANGED <<files, runs>>
                        /\ Respond("POST /documents/upload", credentials, 500, "", TRUE,
                                   UploadFailure(file))
                   ELSE /\ files' = files \cup {d}
                        /\ ids' = [ids EXCEPT !.docs = d, !.runs[d] = 1]
                        /\ runs' = runs \cup {NewRun(ToString(d), ToString(t), 1)}
                        /\ Respond("POST /documents/upload", credentials, 200, "", TRUE, {d})

api_upload_document(credentials, file, metadata_ok, fault) ==
  upload_document_within(credentials, file, metadata_ok, fault, MaxDocs)

api_list_documents(credentials) ==
  /\ UNCHANGED <<tenants, users, tokens, now, docdb>>
  /\ LET r == get_current_tenant(credentials, now) IN
     IF r.status # 200
     THEN Respond("GET /documents/", credentials, r.status, "", FALSE, {})
     ELSE Respond("GET /documents/", credentials, 200, "", TRUE,
                  {d \in DOMAIN docs : docs[d].tenant_id \in r.tenant})

api_get_document(credentials, document_id) ==
  /\ UNCHANGED <<tenants, users, tokens, now, docdb>>
  /\ LET r == get_current_tenant(credentials, now) IN
     IF r.status # 200
     THEN Respond("GET /documents/{id}", credentials, r.status, document_id, FALSE, {})
     ELSE LET found == get_document(document_id, ToString(CHOOSE x \in r.tenant : TRUE)) IN
          IF found = {}
          THEN Respond("GET /documents/{id}", credentials, 404, document_id, TRUE, {})
          ELSE Respond("GET /documents/{id}", credentials, 200, document_id, TRUE, found)

\* the test with its negation of force_reprocess dropped
already_processed_when_forced(d, force_reprocess) ==
  docs[d].status = "processed" /\ force_reprocess

\* the route's "already processed" test
already_processed(d, force_reprocess) ==
  docs[d].status = "processed" /\ ~force_reprocess

\* the DocumentProcessResponse of a request
ProcessResponse(status, force_reprocess) ==
  {[status |-> status, force_reprocess |-> force_reprocess]}

api_process_document(credentials, document_id, force_reprocess) ==
  /\ UNCHANGED <<tenants, users, tokens, now, docs, chunks, files, points, dels, queries, streams, chunker>>
  /\ LET r == get_current_tenant(credentials, now) IN
     IF r.status # 200
     THEN /\ Respond("POST /documents/{id}/process", credentials, r.status, document_id, FALSE, {})
          /\ UNCHANGED <<ids, runs>>
     ELSE LET tenant_id == ToString(CHOOSE x \in r.tenant : TRUE)
              found == get_document(document_id, tenant_id) IN
          IF found = {}
          THEN /\ Respond("POST /documents/{id}/process", credentials, 404, document_id, TRUE, {})
               /\ UNCHANGED <<ids, runs>>
          ELSE LET d == CHOOSE x \in found : TRUE IN
               IF already_processed(d, force_reprocess)
               THEN /\ Respond("POST /documents/{id}/process", credentials, 200, document_id,
                               TRUE, ProcessResponse("already_processed", force_reprocess))
                    /\ UNCHANGED <<ids, runs>>
               ELSE /\ ids.runs[d] < MaxRuns
                    /\ ids' = [ids EXCEPT !.runs[d] = @ + 1]
                    /\ runs' = runs \cup {NewRun(document_id, tenant_id, ids.runs[d] + 1)}
                    /\ Respond("POST /documents/{id}/process", credentials, 200, document_id,
                               TRUE, ProcessResponse("processing", force_reprocess))

\* DELETE /documents/{id} up to the await on the vector store
api_delete_document(credentials, document_id) ==
  /\ UNCHANGED <<tenants, users, tokens, now, docs, ids, chunks, files, points, runs, queries, streams, chunker>>
  /\ LET r == get_current_tenant(credentials, now) IN
     IF r.status # 200
     THEN /\ Respond("DELETE /documents/{id}", credentials, r.status, document_id, FALSE, {})
          /\ UNCHANGED dels
     ELSE LET tenant_id == ToString(CHOOSE x \in r.tenant : TRUE)
              found == get_document(document_id, tenant_id) IN
          IF found = {}
          THEN /\ Respond("DELETE /documents/{id}", credentials, 404, document_id, TRUE, {})
               /\ UNCHANGED dels
          ELSE /\ dels' = dels \cup {[cred |-> credentials, document_id |-> document_id,
                                      tenant_id |-> tenant_id,
                                      file_path |-> docs[CHOOSE x \in found : TRUE].file_path]}
               /\ Respond("DELETE /documents/{id}", credentials, 0, document_id, TRUE, {})

\* the vector store answered: the rest of delete_document and of the route.
\* The answer of vector_service.delete_document is not looked at; a commit
\* that raises makes delete_document return False, which the route turns
\* into 404
api_delete_document_resume(x, store_ok, db_ok) ==
  /\ x \in dels
  /\ dels' = dels \ {x}
  /\ points' = IF store_ok
               THEN points \ delete_document_points(x.tenant_id, x.document_id)
               ELSE points
  /\ files' = files \ {x.file_path}
  /\ LET d == ParseUuid(x.document_id, DocIds) IN
     IF d \in DOMAIN docs /\ db_ok
     THEN /\ docs' = RemoveKey(docs, d)
          /\ chunks' = {c \in chunks : c.document_id # d}
          /\ Respond("DELETE /documents/{id}", x.cred, 200, x.document_id, TRUE, {})
     ELSE /\ UNCHANGED <<docs, chunks>>
          /\ Respond("DELETE /documents/{id}", x.cred, 404, x.document_id, TRUE, {})
  /\ UNCHANGED <<tenants, users, tokens, now, ids, runs, queries, streams, chunker>>

api_get_document_chunks(credentials, document_id) ==
  /\ UNCHANGED <<tenants, users, tokens, now, docdb>>
  /\ LET r == get_current_tenant(credentials, now) IN
     IF r.status # 200
     THEN Respond("GET /documents/{id}/chunks", credentials, r.status, document_id, FALSE, {})
     ELSE LET found == get_document(document_id, ToString(CHOOSE x \in r.tenant : TRUE)) IN
          IF found = {}
          THEN Respond("GET /documents/{id}/chunks", credentials, 404, document_id, TRUE, {})
          ELSE Respond("GET /documents/{id}/chunks", credentials, 200, document_id, TRUE,
                       {c \in chunks : ToString(c.document_id) = document_id})

api_search_documents(credentials, query, limit, score_threshold) ==
  /\ UNCHANGED <<tenants, users, tokens, now, docdb>>
  /\ LET r == get_current_tenant(credentials, now) IN
     IF r.status # 200
     THEN Respond("POST /documents/search", credentials, r.status, "", FALSE, {})
     ELSE \E R \in search_documents(ToString(CHOOSE x \in r.tenant : TRUE),
                                    <<"vec", query>>, limit, score_threshold, <<>>) :
            Respond("POST /documents/search", credentials, 200, "", TRUE, R)

(* ---------------------------- api/queries.py ------------------------- *)
QueryTexts == { <<"a", " ", "b">>, <<"q">> }
QueryIdArgs == {ToString(q) : q \in 1..MaxQueries}

\* embed_text on one string: its vector, or the empty list when the model fails
embed_query(query, model_ok) == IF model_ok THEN <<"vec", query>> ELSE <<>>

\* search_documents answers [] when the store rejects the query vector
rag_search(tenant_id, query_embedding, limit, score_threshold) ==
  IF query_embedding = <<>> THEN {{}}
  ELSE search_documents(tenant_id, query_embedding, limit, score_threshold, <<>>)

\* messages of the exceptions a provider call may raise
ErrorTexts == {"boom", "bang"}

\* llm_service.generate_rag_response without streaming: "" when it returns,
\* otherwise the message of the exception it raises
LlmOutcomes == {""} \cup ErrorTexts

\* a provider's token stream: the fragments it yields and then "" when it
\* ends, or the message of the exception it raises after them
ProviderStreams ==
  [fragments : {<<"f1", "f2">>}, error : LlmOutcomes] \cup {[fragments |-> <<>>, error |-> "boom"]}

\* Query(..., metadata = m): the declarative constructor accepts the keyword
\* because the class has a metadata attribute (the table registry) and sets a
\* plain instance attribute; the JSONB column is query_metadata, which keeps
\* its default, the empty dict
QueryRow(id, tenant_id, user_id, status, responses, metadata) ==
  [id |-> id, tenant_id |-> tenant_id, user_id |-> user_id,
   status |-> status, responses |-> responses, user_rating |-> 0,
   query_metadata |-> [k \in {} |-> ""]]

\* the queries row of this id owned by this user of this tenant
query_lookup(query_id, tenant_id, user_id) ==
  {q \in queries : /\ ToString(q.id) = query_id
                   /\ q.tenant_id = tenant_id
                   /\ q.user_id = user_id}

\* the ContextDocument list: the schema requires doc_metadata and the route
\* passes metadata, so building one raises a validation error; "" when the
\* list is built
context_documents(search_results) ==
  IF search_results = {} THEN "" ELSE "validation error"

\* the HTTPException a route raises for a caught exception
Detail(text) == {[detail |-> text]}

\* the rows a POST /queries/rag attempt leaves behind and its answer.
\* raised: message of the exception raised before the Query row is built;
\* fault = "response": the commit of the QueryResponse row raises;
\* record_ok: the commit of the failed row goes through
rag_rows(t, u, raised, fault, record_ok) ==
  LET n == Cardinality(queries)
      completed(k) == QueryRow(n + 1, t, u, "completed", k, [rag_request |-> "rag_request"])
      failed(id, e) == QueryRow(id, t, u, "failed", 0,
                                [error |-> e, rag_request |-> "rag_request"])
  IN IF raised # ""
     THEN [status |-> 500, rows |-> IF record_ok THEN {failed(n + 1, raised)} ELSE {}]
     ELSE IF fault = "response"
     THEN [status |-> 500,
           rows |-> {completed(0)} \cup
                    (IF record_ok THEN {failed(n + 2, "commit failed")} ELSE {})]
     ELSE [status |-> 200, rows |-> {completed(1)}]

api_generate_rag_response(credentials, query, model_ok, llm, fault, record_ok) ==
  /\ UNCHANGED <<tenants, users, tokens, now, docs, ids, chunks, files, points, runs, dels, streams, chunker>>
  /\ LET r == get_current_tenant(credentials, now) IN
     IF r.status # 200
     THEN /\ Respond("POST /queries/rag", credentials, r.status, "", FALSE, {})
          /\ UNCHANGED queries
     ELSE LET t == CHOOSE x \in r.tenant : TRUE
              u == CHOOSE x \in r.user : TRUE IN
          \E R \in rag_search(ToString(t), embed_query(query, model_ok), 1, 7) :
            LET raised == IF context_documents(R) # "" THEN context_documents(R) ELSE llm
                out == rag_rows(t, u, raised, fault, record_ok)
            IN /\ Cardinality(queries) + Len(streams) + Cardinality(out.rows) <= MaxQueries
               /\ queries' = queries \cup out.rows
               /\ Respond("POST /queries/rag", credentials, out.status, "", TRUE,
                          IF out.status = 200 THEN {} ELSE Detail("RAG query failed"))

\* the event stream_generator yields when the provider stream is over
stream_terminal_always_done(error) == [event |-> "data", data |-> <<"[DONE]">>]

stream_terminal(error) ==
  IF error = "" THEN [event |-> "data", data |-> <<"[DONE]">>]
  ELSE [event |-> "data", data |-> <<"[ERROR: ", error, "]">>]

\* the event stream_generator yields for one fragment; data is the text
\* after "data: ", as the sequence of the strings it is formatted from
stream_fragment(chunk) == [event |-> "data", data |-> <<chunk>>]

\* a StreamingResponse whose generator has not been started
NewStream(tenant_id, user_id, provider) ==
  [tenant_id |-> tenant_id, user_id |-> user_id, provider |-> provider,
   next |-> 1, emitted |-> <<>>, closed |-> FALSE]

\* available: the tenant's provider is one LLMService has initialised
api_generate_rag_response_stream(credentials, query, model_ok, available, provider) ==
  /\ UNCHANGED <<tenants, users, tokens, now, docs, ids, chunks, files, points, runs, dels,
                 queries, chunker>>
  /\ LET r == get_current_tenant(credentials, now) IN
     IF r.status # 200
     THEN /\ Respond("POST /queries/rag/stream", credentials, r.status, "", FALSE, {})
          /\ UNCHANGED streams
     ELSE IF ~available
     THEN /\ Respond("POST /queries/rag/stream", credentials, 500, "", TRUE,
                     Detail("Streaming RAG query failed"))
          /\ UNCHANGED streams
     ELSE /\ Cardinality(queries) + Len(streams) < MaxQueries
          /\ streams' = Append(streams, NewStream(CHOOSE x \in r.tenant : TRUE,
                                                  CHOOSE x \in r.user : TRUE, provider))
          /\ Respond("POST /queries/rag/stream", credentials, 200, "", TRUE, {})

\* one iteration of stream_generator for the i-th response
stream_generator(i) ==
  /\ i \in DOMAIN streams
  /\ ~streams[i].closed
  /\ LET st == streams[i]
         fragments == st.provider.fragments
     IN streams' =
          IF st.next <= Len(fragments)
          THEN [streams EXCEPT ![i].emitted = Append(@, stream_fragment(fragments[st.next])),
                               ![i].next = @ + 1]
          ELSE [streams EXCEPT ![i].emitted = Append(@, stream_terminal(st.provider.error)),
                               ![i].closed = TRUE]
  /\ Internal("stream_generator")
  /\ UNCHANGED <<tenants, users, tokens, now, docs, ids, chunks, files, points, runs, dels,
                 queries, chunker>>

api_get_query_history(credentials) ==
  /\ UNCHANGED <<tenants, users, tokens, now, docdb>>
  /\ LET r == get_current_tenant(credentials, now) IN
     IF r.status # 200
     THEN Respond("GET /queries/history", credentials, r.status, "", FALSE, {})
     ELSE Respond("GET /queries/history", credentials, 200, "", TRUE,
                  {q \in queries : q.tenant_id \in r.tenant /\ q.user_id \in r.user})

api_get_query(credentials, query_id) ==
  /\ UNCHANGED <<tenants, users, tokens, now, docdb>>
  /\ LET r == get_current_tenant(credentials, now) IN
     IF r.status # 200
     THEN Respond("GET /queries/{id}", credentials, r.status, query_id, FALSE, {})
     ELSE LET found == query_lookup(query_id, CHOOSE x \in r.tenant : TRUE,
                                    CHOOSE x \in r.user : TRUE) IN
          Respond("GET /queries/{id}", credentials, IF found = {} THEN 404 ELSE 200,
                  query_id, TRUE, found)

api_submit_query_feedback(credentials, query_id, rating) ==
  /\ UNCHANGED <<tenants, users, tokens, now, docs, ids, chunks, files, points, runs, dels, streams, chunker>>
  /\ LET r == get_current_tenant(credentials, now) IN
     IF r.status # 200
     THEN /\ Respond("POST /queries/{id}/feedback", credentials, r.status, query_id, FALSE, {})
          /\ UNCHANGED queries
     ELSE LET found == query_lookup(query_id, CHOOSE x \in r.tenant : TRUE,
                                    CHOOSE x \in r.user : TRUE) IN
          IF found = {}
          THEN /\ Respond("POST /queries/{id}/feedback", credentials, 404, query_id, TRUE, {})
               /\ UNCHANGED queries
          ELSE /\ queries' = (queries \ found) \cup
                               {[q EXCEPT !.user_rating = rating] : q \in found}
               /\ Respond("POST /queries/{id}/feedback", credentials, 200, query_id, TRUE, {})

api_get_query_analytics(credentials) ==
  /\ UNCHANGED <<tenants, users, tokens, now, docdb>>
  /\ LET r == get_current_tenant(credentials, now) IN
     IF r.status # 200
     THEN Respond("GET /queries/analytics/summary", credentials, r.status, "", FALSE, {})
     ELSE Respond("GET /queries/analytics/summary", credentials, 200, "", TRUE,
                  {q \in queries : q.tenant_id \in r.tenant})

(* ------------------- specification: accounts and tenants -------------- *)
TenantRow(subdomain) ==
  [subdomain |-> subdomain, max_documents |-> default_max_documents, is_active |-> TRUE]

UserRow(tenant_id, email, role) ==
  [tenant_id |-> tenant_id, email |-> email, hashed_password |-> hash_password("password1"),
   role |-> role, is_active |-> TRUE]

TenantUpdates == {[subdomain |-> "acme"]}

\* no call of chunk_text_for_embedding is under way
NoCall ==
  [text |-> <<>>, mcs |-> max_chunk_size, ov |-> overlap_size, start |-> 0,
   chunk_index |-> 0, chunks |-> <<>>, iterations |-> 0, running |-> FALSE]

NoDocuments ==
  /\ docs = <<>>
  /\ ids = [docs |-> 0, runs |-> [d \in DocIds |-> 0], points |-> 0]
  /\ chunks = {} /\ files = {} /\ points = {}
  /\ runs = {} /\ dels = {} /\ queries = {} /\ streams = <<>>
  /\ chunker = NoCall

\* a deployment seeded with one tenant and its administrator
Init ==
  /\ tenants = (1 :> TenantRow("None"))
  /\ users = (1 :> UserRow(1, "x@y.com", "admin"))
  /\ tokens = {}
  /\ now = 0
  /\ NoDocuments
  /\ ev = [route |-> "start", cred |-> NoCred, status |-> 0, arg |-> "",
           reached |-> FALSE, data |-> {}]

Next ==
  \/ \E t \in TenantIdArgs, e \in Emails, p \in Passwords, role \in Roles :
       api_register_user(t, e, p, role)
  \/ \E e \in Emails, p \in Passwords \cup {"wrong"}, ti \in {"None"} \cup TenantIdArgs :
       api_login_user(e, p, ti)
  \/ \E c \in Credentials : api_get_current_user_info(c)
  \/ \E c \in Credentials : api_refresh_token(c)
  \/ \E c \in Credentials, sd \in Subdomains : api_create_tenant(c, sd)
  \/ \E c \in Credentials : api_list_tenants(c)
  \/ \E c \in Credentials, t \in TenantIdArgs : api_get_tenant(c, t)
  \/ \E c \in Credentials, t \in TenantIdArgs, up \in TenantUpdates : api_update_tenant(c, t, up)
  \/ \E c \in Credentials, t \in TenantIdArgs : api_deactivate_tenant(c, t)
  \/ \E c \in Credentials, t \in TenantIdArgs : api_get_tenant_stats(c, t)
  \/ \E c \in Credentials : api_get_current_tenant_info(c)
  \/ \E c \in Credentials : api_get_current_tenant_stats(c)
  \/ Tick
  \/ \E u \in UserIds : SetUserInactive(u)

Spec == Init /\ [][Next]_vars

(* ------------------- specification: documents and queries ------------- *)
\* two tenants, one signed-in user each, nothing uploaded yet
InitDoc ==
  /\ tenants = (1 :> TenantRow("None")) @@ (2 :> TenantRow("acme"))
  /\ users = (1 :> UserRow(1, "x@y.com", "admin")) @@ (2 :> UserRow(2, "x@y.com", "viewer"))
  /\ now = 0
  /\ tokens = {create_access_token(ToString(u), ToString(users[u].tenant_id), users[u].email,
                                   users[u].role, {RolePermissions(users[u].role)}, 0)
                 : u \in {1, 2}}
  /\ NoDocuments
  /\ ev = [route |-> "start", cred |-> NoCred, status |-> 0, arg |-> "",
           reached |-> FALSE, data |-> {}]

\* requests to the account and tenant routes that carry no Authorization header
NoHeaderRequest ==
  \/ api_get_current_user_info(NoCred)
  \/ api_refresh_token(NoCred)
  \/ \E sd \in Subdomains : api_create_tenant(NoCred, sd)
  \/ api_list_tenants(NoCred)
  \/ \E t \in TenantIdArgs : api_get_tenant(NoCred, t)
  \/ \E t \in TenantIdArgs, up \in TenantUpdates : api_update_tenant(NoCred, t, up)
  \/ \E t \in TenantIdArgs : api_deactivate_tenant(NoCred, t)
  \/ \E t \in TenantIdArgs : api_get_tenant_stats(NoCred, t)
  \/ api_get_current_tenant_info(NoCred)
  \/ api_get_current_tenant_stats(NoCred)
  \/ \E q \in QueryTexts : api_generate_rag_response(NoCred, q, TRUE, "", "none", TRUE)
  \/ \E q \in QueryTexts, p \in ProviderStreams :
       api_generate_rag_response_stream(NoCred, q, TRUE, TRUE, p)
  \/ api_get_query_history(NoCred)
  \/ \E q \in QueryIdArgs : api_get_query(NoCred, q)
  \/ \E q \in QueryIdArgs : api_submit_query_feedback(NoCred, q, 5)
  \/ api_get_query_analytics(NoCred)

DocumentRequest ==
  \/ \E c \in Credentials, f \in Files, m \in BOOLEAN,
        fault \in {"none", "write", "insert", "refresh"} :
       api_upload_document(c, f, m, fault)
  \/ \E c \in Credentials : api_list_documents(c)
  \/ \E c \in Credentials, d \in DocIdArgs : api_get_document(c, d)
  \/ \E c \in Credentials, d \in DocIdArgs, force \in BOOLEAN : api_process_document(c, d, force)
  \/ \E c \in Credentials, d \in DocIdArgs : api_delete_document(c, d)
  \/ \E c \in Credentials, d \in DocIdArgs : api_get_document_chunks(c, d)
  \/ \E c \in Credentials, q \in QueryTexts : api_search_documents(c, q, 1, 5)

\* a coroutine runs from one await to the next without interleaving
NextDoc ==
  \/ /\ Busy
     /\ \E r \in runs, model_ok \in BOOLEAN : process_document_pipeline(r, model_ok)
  \/ /\ ~Busy
     /\ \/ NoHeaderRequest
        \/ DocumentRequest
        \/ \E r \in runs : process_document_begin(r)
        \/ \E r \in runs, success \in BOOLEAN : process_document_resume(r, success)
        \/ \E x \in dels, store_ok \in BOOLEAN, db_ok \in BOOLEAN :
             api_delete_document_resume(x, store_ok, db_ok)

SpecDoc == InitDoc /\ [][NextDoc]_vars

(* ------------------- specification: RAG queries ------------------------ *)
\* tenant 1 has uploaded one document and its processing run has finished;
\* tenant 2 has nothing in the collection
InitQuery ==
  /\ tenants = (1 :> TenantRow("None")) @@ (2 :> TenantRow("acme"))
  /\ users = (1 :> UserRow(1, "x@y.com", "admin")) @@ (2 :> UserRow(2, "x@y.com", "viewer"))
  /\ now = 0
  /\ tokens = {create_access_token(ToString(u), ToString(users[u].tenant_id), users[u].email,
                                   users[u].role, {RolePermissions(users[u].role)}, 0)
                 : u \in {1, 2}}
  /\ LET text == <<"a", " ", "b">>
         e == embed_document_chunks(
                chunk_text_for_embedding(text, max_chunk_size, overlap_size), TRUE).chunks
     IN /\ docs = (1 :> [tenant_id |-> 1, file_path |-> 1, text |-> text,
                         status |-> "processed", total_chunks |-> Len(e)])
        /\ chunks = process_document_rows(1, "1", 1, e)
        /\ points = process_document_points(1, "1", 1, e)
  /\ files = {1}
  /\ ids = [docs |-> 1, runs |-> [d \in DocIds |-> IF d = 1 THEN 1 ELSE 0], points |-> 0]
  /\ runs = {} /\ dels = {} /\ queries = {} /\ streams = <<>>
  /\ chunker = NoCall
  /\ ev = [route |-> "start", cred |-> NoCred, status |-> 0, arg |-> "",
           reached |-> FALSE, data |-> {}]

\* the query of every request is the text of tenant 1's document: it finds
\* the document's chunk for tenant 1 and nothing for tenant 2, and nothing at
\* all when the embedding model fails
NextQuery ==
  \/ \E c \in Credentials, m \in BOOLEAN, l \in LlmOutcomes,
        f \in {"none", "response"}, ok \in BOOLEAN :
       api_generate_rag_response(c, <<"a", " ", "b">>, m, l, f, ok)
  \/ \E c \in Credentials, av \in BOOLEAN :
       api_generate_rag_response_stream(c, <<"a", " ", "b">>, TRUE, av,
                                        [fragments |-> <<"f1", "f2">>, error |-> ""])
  \/ \E c \in Credentials : api_get_query_history(c)
  \/ \E c \in Credentials, q \in QueryIdArgs : api_get_query(c, q)
  \/ \E c \in Credentials, q \in QueryIdArgs : api_submit_query_feedback(c, q, 5)
  \/ \E c \in Credentials : api_get_query_analytics(c)

SpecQuery == InitQuery /\ [][NextQuery]_vars

(* ------------------- specification: streamed answers ------------------- *)
InitStream == InitQuery

\* streaming responses are opened and consumed one event at a time, in any
\* interleaving
NextStream ==
  \/ \E c \in Credentials, av \in BOOLEAN, p \in ProviderStreams :
       api_generate_rag_response_stream(c, <<"a", " ", "b">>, TRUE, av, p)
  \/ \E i \in 1..MaxQueries : stream_generator(i)
  \/ \E c \in Credentials : api_get_query_history(c)

SpecStream == InitStream /\ [][NextStream]_vars

(* ------------------- specification: the vector store ------------------ *)
\* the tenants writing to and searching the shared collection
SearchTenants == {"1", "2"}

\* records a caller hands to add_documents; the metadata of one names a tenant
VectorDocs ==
  {[document_id |-> "1", chunk_id |-> "None", text |-> <<"a">>, embedding |-> e,
    source |-> "f.txt", metadata |-> m] :
     e \in {<<"vec", <<"a">> >>, <<"vec", <<"q">> >>},
     m \in {[chunk_index |-> 1], [tenant_id |-> "2"], [document_id |-> "2"]}}

\* filter maps a caller hands to search_documents
FilterMaps == {<<>>, [tenant_id |-> "1"], [tenant_id |-> "2"], [document_id |-> "1"]}

\* QdrantVectorService.add_documents for a batch of one record
vs_add_documents(tenant_id, doc, success) ==
  /\ ids.points < MaxPoints
  /\ ids' = [ids EXCEPT !.points = @ + 1]
  /\ LET pts == {add_documents_point(tenant_id, doc, <<"uuid4", ids.points + 1>>)} IN
       /\ success => UpsertAccepts(pts)
       /\ points' = IF success THEN points \cup pts ELSE points
  /\ Respond("add_documents", NoCred, IF success THEN 200 ELSE 500, tenant_id, TRUE, {doc})
  /\ UNCHANGED <<tenants, users, tokens, now, docs, chunks, files, runs, dels, queries, streams, chunker>>

\* QdrantVectorService.search_documents; [] when the store raises
vs_search_documents(tenant_id, query, limit, score_threshold, filter_conditions, store_ok) ==
  /\ \E R \in search_documents(tenant_id, <<"vec", query>>, limit, score_threshold,
                               filter_conditions) :
       Respond("search_documents", NoCred, 200, tenant_id, TRUE,
               {[filter_conditions |-> filter_conditions,
                 results |-> IF store_ok THEN R ELSE {}]})
  /\ UNCHANGED <<tenants, users, tokens, now, docdb>>

\* QdrantVectorService.delete_document
vs_delete_document(tenant_id, document_id, store_ok) ==
  /\ points' = IF store_ok THEN points \ delete_document_points(tenant_id, document_id)
               ELSE points
  /\ Respond("delete_document", NoCred, IF store_ok THEN 200 ELSE 500, tenant_id, TRUE, {})
  /\ UNCHANGED <<tenants, users, tokens, now, docs, ids, chunks, files, runs, dels, queries, streams, chunker>>

InitSearch == InitDoc

NextSearch ==
  \/ \E t \in SearchTenants, doc \in VectorDocs, ok \in BOOLEAN : vs_add_documents(t, doc, ok)
  \/ \E t \in SearchTenants, limit \in {1, MaxPoints}, th \in {5, 10}, f \in FilterMaps,
        ok \in BOOLEAN :
       vs_search_documents(t, <<"q">>, limit, th, f, ok)
  \/ \E t \in SearchTenants, ok \in BOOLEAN : vs_delete_document(t, "1", ok)

SpecSearch == InitSearch /\ [][NextSearch]_vars

(* ------------------- specification: access tokens --------------------- *)
\* arguments of create_access_token; permissions {} is the omitted argument
TokenInputs ==
  [user_id : {"1", "2"}, tenant_id : {"1"}, email : {"x@y.com"}, role : Roles,
   permissions : {{}, {<<>>}, {<<"read", "write">>}}]

Alterations == {"none", "signature", "payload", "type"}

\* what a client presents: the token as minted, re-signed under another key,
\* with an edited payload under the old signature, or a token of another type
\* signed with the service's key
Altered(tok, alteration) ==
  IF alteration = "signature" THEN Forged(tok)
  ELSE IF alteration = "payload" THEN [tok EXCEPT !.payload.user_id = "0"]
  ELSE IF alteration = "type"
       THEN jwt_encode([tok.payload EXCEPT !.type = "refresh_token"], jwt_secret_key)
       ELSE tok

svc_create_access_token(inp) ==
  /\ Cardinality(tokens) < MaxTokens
  /\ tokens' = tokens \cup {create_access_token(inp.user_id, inp.tenant_id, inp.email,
                                                inp.role, inp.permissions, now)}
  /\ Respond("create_access_token", NoCred, 200, "", TRUE, {inp})
  /\ UNCHANGED <<tenants, users, now, docdb>>

svc_decode_token(tok, alteration) ==
  /\ tok \in tokens
  /\ Respond("decode_token", Altered(tok, alteration),
             decode_token(Altered(tok, alteration), now).status, alteration, TRUE,
             decode_token(Altered(tok, alteration), now).payload)
  /\ UNCHANGED <<tenants, users, tokens, now, docdb>>

\* time passes up to the instant a token minted now expires
TickLifetime ==
  /\ now + jwt_expire_minutes <= MaxClock
  /\ now' = now + jwt_expire_minutes
  /\ Internal("tick")
  /\ UNCHANGED <<tenants, users, tokens, docdb>>

InitToken == Init

NextToken ==
  \/ \E inp \in TokenInputs : svc_create_access_token(inp)
  \/ \E tok \in tokens, a \in Alterations : svc_decode_token(tok, a)
  \/ TickLifetime
  \/ Tick

SpecToken == InitToken /\ [][NextToken]_vars

(* ---------------------- specification: registration ------------------ *)
\* UserCreate.role is a plain string: any text passes validation
RoleInputs == Roles \cup {"user", "root"}

\* AuthService.authenticate_user called without a tenant identifier
svc_authenticate_user(email, password) ==
  /\ LET q == authenticate_user_query(email, "None") IN
     IF q = {}
     THEN Respond("authenticate_user", NoCred, 0, email, TRUE,
                  {[password |-> password, user |-> {}]})
     ELSE \E u \in q :
            Respond("authenticate_user", NoCred, 0, email, TRUE,
                    {[password |-> password, user |-> authenticate_user(u, password)]})
  /\ UNCHANGED <<tenants, users, tokens, now, docdb>>

NextRegister ==
  \/ \E t \in TenantIdArgs, e \in Emails, p \in Passwords, role \in RoleInputs :
       api_register_user(t, e, p, role)
  \/ \E e \in Emails, p \in Passwords \cup {"wrong"}, ti \in {"None"} \cup TenantIdArgs :
       api_login_user(e, p, ti)
  \/ \E c \in Credentials : api_get_current_user_info(c)
  \/ \E c \in Credentials, sd \in Subdomains : api_create_tenant(c, sd)
  \/ \E e \in Emails, p \in Passwords \cup {"wrong"} : svc_authenticate_user(e, p)
  \/ \E u \in UserIds : SetUserInactive(u)

SpecRegister == Init /\ [][NextRegister]_vars

(* ------------------------ specification: quotas ----------------------- *)
\* current_count is {} when the caller leaves it out, {n} when it passes n
validate_tenant_quota_at_most(tenant_id, quota_type, current_count) ==
  IF get_tenant_by_id(tenant_id) = {} THEN FALSE
  ELSE IF quota_type = "documents"
  THEN LET t == ParseUuid(tenant_id, TenantIds)
           count == IF current_count = {}
                    THEN Cardinality({d \in DOMAIN docs : docs[d].tenant_id = t})
                    ELSE CHOOSE n \in current_count : TRUE
       IN count <= tenants[t].max_documents
  ELSE TRUE

validate_tenant_quota(tenant_id, quota_type, current_count) ==
  IF get_tenant_by_id(tenant_id) = {} THEN FALSE
  ELSE IF quota_type = "documents"
  THEN LET t == ParseUuid(tenant_id, TenantIds)
           count == IF current_count = {}
                    THEN Cardinality({d \in DOMAIN docs : docs[d].tenant_id = t})
                    ELSE CHOOSE n \in current_count : TRUE
       IN count < tenants[t].max_documents
  ELSE TRUE

svc_validate_tenant_quota(tenant_id, quota_type, current_count) ==
  /\ Respond("validate_tenant_quota", NoCred, 0, tenant_id, TRUE,
             {[quota_type |-> quota_type, current_count |-> current_count,
               result |-> validate_tenant_quota(tenant_id, quota_type, current_count)]})
  /\ UNCHANGED <<tenants, users, tokens, now, docdb>>

NextQuota ==
  \/ \E t \in TenantIdArgs, qt \in {"documents", "queries"},
        cc \in {{}} \cup {{n} : n \in 0..MaxDocs + 1} :
       svc_validate_tenant_quota(t, qt, cc)
  \/ \E c \in tokens, f \in Files :
       upload_document_within(c, f, TRUE, "none", MaxDocs + 1)
  \/ \E c \in tokens, t \in TenantIdArgs, n \in 1..MaxDocs + 1 :
       api_update_tenant(c, t, [max_documents |-> n])
  \/ \E c \in tokens, t \in TenantIdArgs : api_deactivate_tenant(c, t)

\* as InitDoc, with room for one document more than DocIds names
InitQuota ==
  /\ tenants = (1 :> TenantRow("None")) @@ (2 :> TenantRow("acme"))
  /\ users = (1 :> UserRow(1, "x@y.com", "admin")) @@ (2 :> UserRow(2, "x@y.com", "viewer"))
  /\ now = 0
  /\ tokens = {create_access_token(ToString(u), ToString(users[u].tenant_id), users[u].email,
                                   users[u].role, {RolePermissions(users[u].role)}, 0)
                 : u \in {1, 2}}
  /\ docs = <<>>
  /\ ids = [docs |-> 0, runs |-> [d \in 1..MaxDocs + 1 |-> 0], points |-> 0]
  /\ chunks = {} /\ files = {} /\ points = {}
  /\ runs = {} /\ dels = {} /\ queries = {} /\ streams = <<>>
  /\ chunker = NoCall
  /\ ev = [route |-> "start", cred |-> NoCred, status |-> 0, arg |-> "",
           reached |-> FALSE, data |-> {}]

SpecQuota == InitQuota /\ [][NextQuota]_vars

(* ----------------------- specification: chunking ---------------------- *)
RECURSIVE TextsOfLen(_)
TextsOfLen(n) ==
  IF n = 0 THEN {<<>>}
  ELSE {Append(t, c) : t \in TextsOfLen(n - 1), c \in {"a", " "}}

\* texts longer than the 100 characters the search for a space reaches back:
\* without a space, with one before the reach, with one inside it
ChunkCalls ==
  [text : UNION {TextsOfLen(n) : n \in 0..MaxTextLen}, mcs : 1..MaxTextLen - 1,
   ov : 0..MaxTextLen]
  \cup [text : {[i \in 1..104 |-> IF i \in S THEN " " ELSE "a"] : S \in {{}, {2}, {60}}},
        mcs : {101, 102}, ov : {0, 102}]

\* the call up to the loop: the early return, or the locals set before while
svc_chunk_text_for_embedding(call) ==
  /\ ~chunker.running
  /\ chunker' =
       IF Len(call.text) <= call.mcs
       THEN [text |-> call.text, mcs |-> call.mcs, ov |-> call.ov, start |-> 0,
             chunk_index |-> 0,
             chunks |-> chunk_text_for_embedding(call.text, call.mcs, call.ov),
             iterations |-> 0, running |-> FALSE]
       ELSE [text |-> call.text, mcs |-> call.mcs, ov |-> call.ov, start |-> 0,
             chunk_index |-> 0, chunks |-> <<>>, iterations |-> 0,
             running |-> 0 < Len(call.text)]
  /\ Internal("chunk_text_for_embedding")
  /\ UNCHANGED <<tenants, users, tokens, now, docs, ids, chunks, files, points, runs, dels,
                 queries, streams>>

\* one pass of the loop, then its exits: the break and the while condition.
\* The pass counter stops at len(text) + 1 should the loop never leave
chunk_loop_iteration ==
  /\ chunker.running
  /\ chunker.iterations <= Len(chunker.text)
  /\ LET n == ChunkIteration(chunker.text, chunker.mcs, chunker.ov, chunker.start,
                             chunker.chunk_index, chunker.chunks)
     IN chunker' = [chunker EXCEPT !.start = n.start, !.chunk_index = n.chunk_index,
                                   !.chunks = n.chunks, !.iterations = @ + 1,
                                   !.running = n.start < Len(chunker.text)]
  /\ Internal("chunk_text_for_embedding loop")
  /\ UNCHANGED <<tenants, users, tokens, now, docs, ids, chunks, files, points, runs, dels,
                 queries, streams>>

NextChunk ==
  \/ \E call \in ChunkCalls : svc_chunk_text_for_embedding(call)
  \/ chunk_loop_iteration

\* a loop that has begun keeps executing: the interpreter runs the next pass
SpecChunk == Init /\ [][NextChunk]_vars /\ WF_vars(chunk_loop_iteration)

(* ----------------------- specification: indexing ---------------------- *)
\* a file that fits one chunk, and one of 600 characters whose only space is
\* at offset 500: it is split into the chunks [0, 500) and [500, 600)
IndexFiles ==
  {[ext |-> "txt", size |-> 3, text |-> <<"a", " ", "b">>],
   [ext |-> "txt", size |-> 600, text |-> [i \in 1..600 |-> IF i = 501 THEN " " ELSE "a"]]}

NextIndex ==
  \/ /\ Busy
     /\ \E r \in runs, model_ok \in BOOLEAN : process_document_pipeline(r, model_ok)
  \/ /\ ~Busy
     /\ \/ \E c \in tokens, f \in IndexFiles : api_upload_document(c, f, TRUE, "none")
        \/ \E c \in tokens, d \in DocIdArgs : api_process_document(c, d, FALSE)
        \/ \E c \in tokens, d \in DocIdArgs : api_delete_document(c, d)
        \/ \E x \in dels : api_delete_document_resume(x, TRUE, TRUE)
        \/ \E c \in tokens, d \in DocIdArgs : api_get_document_chunks(c, d)
        \/ \E c \in tokens : api_search_documents(c, <<"q">>, MaxPoints, 5)
        \/ \E r \in runs : process_document_begin(r)
        \/ \E r \in runs, success \in BOOLEAN : process_document_resume(r, success)

SpecIndex == InitDoc /\ [][NextIndex]_vars

(* ------------------- specification: tenant lifecycle ------------------ *)
\* TenantService.update_tenant called with an update map of the caller's
\* choosing; 404 is its NotFound
svc_update_tenant(tenant_id, updates) ==
  /\ IF get_tenant_by_id(tenant_id) = {}
     THEN /\ Respond("update_tenant", NoCred, 404, tenant_id, TRUE, {updates})
          /\ UNCHANGED tenants
     ELSE LET t == ParseUuid(tenant_id, TenantIds)
              row == update_tenant(tenants[t], updates) IN
          IF SubdomainTaken(t, row)
          THEN /\ Respond("update_tenant", NoCred, 500, tenant_id, TRUE, {updates})
               /\ UNCHANGED tenants
          ELSE /\ tenants' = [tenants EXCEPT ![t] = row]
               /\ Respond("update_tenant", NoCred, 200, tenant_id, TRUE, {updates})
  /\ UNCHANGED <<users, tokens, now, docdb>>

\* TenantService.deactivate_tenant; data holds the boolean it returns
svc_deactivate_tenant(tenant_id) ==
  /\ IF get_tenant_by_id(tenant_id) = {}
     THEN /\ Respond("deactivate_tenant", NoCred, 0, tenant_id, TRUE, {FALSE})
          /\ UNCHANGED tenants
     ELSE /\ tenants' = deactivate_tenant(tenant_id)
          /\ Respond("deactivate_tenant", NoCred, 0, tenant_id, TRUE, {TRUE})
  /\ UNCHANGED <<users, tokens, now, docdb>>

NextTenant ==
  \/ \E t \in TenantIdArgs,
        up \in {[is_active |-> TRUE], [subdomain |-> "acme"],
                [max_documents |-> 1, is_active |-> TRUE]} :
       svc_update_tenant(t, up)
  \/ \E t \in TenantIdArgs : svc_deactivate_tenant(t)
  \/ \E c \in Credentials, sd \in Subdomains : api_create_tenant(c, sd)
  \/ \E t \in TenantIdArgs, e \in Emails, p \in Passwords, role \in Roles :
       api_register_user(t, e, p, role)
  \/ \E e \in Emails, p \in Passwords \cup {"wrong"}, ti \in {"None"} \cup TenantIdArgs :
       api_login_user(e, p, ti)
  \/ \E e \in Emails, p \in Passwords : svc_authenticate_user(e, p)

SpecTenant == Init /\ [][NextTenant]_vars

(* ------------------------------- claims ------------------------------- *)
DocumentIdRoutes == {"GET /documents/{id}", "POST /documents/{id}/process",
                     "DELETE /documents/{id}", "GET /documents/{id}/chunks"}

\* the request e is made by a signed-in user of one tenant and names a
\* document that exists and belongs to another tenant
CrossTenant(e) ==
  /\ e.route \in DocumentIdRoutes
  /\ e.cred \in tokens
  /\ LET r == get_current_tenant(e.cred, now) IN
       /\ r.status = 200
       /\ \E d \in DOMAIN docs : ToString(d) = e.arg /\ docs[d].tenant_id \notin r.tenant

\* C1: a document request (get, process, delete, chunks) by a user of tenant A
\* that names a document of tenant B is answered 404, and the documents and
\* document_chunks tables, the stored files, the vector points and the
\* scheduled processing and deletion work are left as they were.
C1_CrossTenantNotFound ==
  [][CrossTenant(ev') =>
       /\ ev'.status = 404
       /\ UNCHANGED <<docs, chunks, files, points, runs, dels, ids>>]_vars

\* a cross-tenant DELETE was answered 404 while the foreign document is
\* processed, with its chunk rows, its file and its points in place
C1_Witness ==
  /\ ev.route = "DELETE /documents/{id}"
  /\ ev.status = 404
  /\ CrossTenant(ev)
  /\ \E d \in DOMAIN docs :
       /\ ToString(d) = ev.arg
       /\ docs[d].status = "processed"
       /\ docs[d].file_path \in files
       /\ \E c \in chunks : c.document_id = d
       /\ \E p \in points : p.payload.document_id = ev.arg

\* C2: whatever filter map the caller supplies, one naming tenant_id
\* included, search_documents for tenant A returns only points whose payload
\* carries tenant_id = A.
C2_SearchTenantScoped ==
  ev.route = "search_documents" =>
    \A x \in ev.data : \A p \in x.results : p.payload.tenant_id = ev.arg

\* a search whose filter names the other tenant, made while both tenants
\* have points in the collection
C2_Witness ==
  /\ ev.route = "search_documents"
  /\ \E x \in ev.data :
       /\ "tenant_id" \in DOMAIN x.filter_conditions
       /\ x.filter_conditions.tenant_id # ev.arg
       /\ \E p \in points : p.payload.tenant_id = x.filter_conditions.tenant_id
  /\ \E p \in points : p.payload.tenant_id = ev.arg

BearerRoutes ==
  {"GET /auth/me", "POST /auth/refresh-token", "POST /auth/tenants", "GET /auth/tenants",
   "GET /auth/tenants/{id}", "PUT /auth/tenants/{id}", "DELETE /auth/tenants/{id}",
   "GET /auth/tenants/{id}/stats", "GET /tenant/info", "GET /tenant/stats",
   "POST /documents/upload", "GET /documents/", "POST /documents/search"}
  \cup DocumentIdRoutes
  \cup {"POST /queries/rag", "POST /queries/rag/stream", "GET /queries/history",
        "GET /queries/{id}", "POST /queries/{id}/feedback", "GET /queries/analytics/summary"}

\* C3: a request to a bearer-protected route that carries no Authorization
\* header is answered 401 before its handler runs, and changes nothing: no
\* table row, file or vector point, and no processing or deletion scheduled.
C3_NoHeaderUnauthorized ==
  [][(ev'.route \in BearerRoutes /\ ev'.cred = NoCred) =>
       /\ ev'.status = 401
       /\ ~ev'.reached
       /\ UNCHANGED <<tenants, users, tokens, docdb>>]_vars

\* an upload or a delete without a header was refused while a processed
\* document of a tenant was there to be touched
C3_Witness ==
  /\ ev.route \in {"POST /documents/upload", "DELETE /documents/{id}"}
  /\ ev.cred = NoCred
  /\ ev.status = 401
  /\ \E d \in DOMAIN docs : docs[d].status = "processed"

\* the user a token was minted for
TokenUser(tok) == ParseUuid(tok.payload.user_id, UserIds)

\* C4: once a tenant is deactivated, every bearer-authenticated request of one
\* of its users who holds a valid, unexpired token is answered 403, on every
\* bearer-protected route.
C4_DeactivatedTenantForbidden ==
  [][(/\ ev'.route \in BearerRoutes
      /\ ev'.cred \in tokens
      /\ get_user_by_token(ev'.cred, now).status = 200
      /\ ~tenants[users[TokenUser(ev'.cred)].tenant_id].is_active)
       => ev'.status = 403]_vars

\* a user of a deactivated tenant, holding a valid token, was answered 404 by
\* a route that resolves the tenant
C4_Witness ==
  /\ ev.route = "GET /tenant/info"
  /\ ev.cred \in tokens
  /\ get_user_by_token(ev.cred, now).status = 200
  /\ ~tenants[users[TokenUser(ev.cred)].tenant_id].is_active
  /\ ev.status = 404

\* C5: while a user's is_active flag is false, get_user_by_token answers 401
\* for every token minted for that user, expired or not, and a request that
\* presents such a token is answered 401 without reaching its handler.
C5_InactiveUserUnauthorized ==
  [][(/\ ev'.route \in BearerRoutes
      /\ ev'.cred \in tokens
      /\ ~users[TokenUser(ev'.cred)].is_active)
       => /\ get_user_by_token(ev'.cred, now).status = 401
          /\ ev'.status = 401
          /\ ~ev'.reached
          /\ UNCHANGED <<tenants, users, tokens, docdb>>]_vars

\* a request with an unexpired token of a deactivated user was refused
C5_Witness ==
  /\ ev.route \in BearerRoutes
  /\ ev.cred \in tokens
  /\ decode_token(ev.cred, now).status = 200
  /\ ~users[TokenUser(ev.cred)].is_active
  /\ ev.status = 401

TenantAdminRoutes ==
  {"POST /auth/tenants", "GET /auth/tenants", "GET /auth/tenants/{id}",
   "PUT /auth/tenants/{id}", "DELETE /auth/tenants/{id}", "GET /auth/tenants/{id}/stats"}

\* C6: a tenant-administration request of an authenticated user whose role is
\* not exactly "admin" is answered 403 and leaves the tenants table as it was.
C6_NonAdminForbidden ==
  [][(/\ ev'.route \in TenantAdminRoutes
      /\ ev'.cred \in tokens
      /\ get_user_by_token(ev'.cred, now).status = 200
      /\ users[TokenUser(ev'.cred)].role # "admin")
       => /\ ev'.status = 403
          /\ ~ev'.reached
          /\ UNCHANGED tenants]_vars

\* a user whose role is "viewer" was refused the deactivation of an active tenant
C6_Witness ==
  /\ ev.route = "DELETE /auth/tenants/{id}"
  /\ ev.cred \in tokens
  /\ users[TokenUser(ev.cred)].role = "viewer"
  /\ ev.status = 403
  /\ get_tenant_by_id(ev.arg) # {}

EmailUniquePerTenant ==
  \A u, v \in DOMAIN users :
    (users[u].tenant_id = users[v].tenant_id /\ users[u].email = users[v].email) => u = v

\* C7: no two users of one tenant share an email; registering an email that
\* the tenant already has is answered 400 and adds no row; registering an
\* email that only other tenants have succeeds and adds the row.
C7_EmailUniquePerTenant ==
  [][/\ EmailUniquePerTenant'
     /\ (ev'.route = "POST /auth/register" /\ get_tenant_by_id(ev'.arg) # {}) =>
          LET email == CHOOSE e \in ev'.data : TRUE
              tenant_id == ParseUuid(ev'.arg, TenantIds)
              taken == \E u \in DOMAIN users :
                         users[u].tenant_id = tenant_id /\ users[u].email = email
          IN IF taken
             THEN ev'.status = 400 /\ UNCHANGED users
             ELSE /\ ev'.status = 200
                  /\ \E u \in DOMAIN users' \ DOMAIN users :
                       /\ users'[u].tenant_id = tenant_id
                       /\ users'[u].email = email
                       /\ users' = users @@ (u :> users'[u])]_vars

\* a duplicate registration was refused in a tenant while the same email is
\* registered in another tenant
C7_Witness ==
  /\ ev.route = "POST /auth/register"
  /\ ev.status = 400
  /\ \E u, v \in DOMAIN users :
       /\ users[u].email = users[v].email
       /\ users[u].tenant_id # users[v].tenant_id
       /\ ToString(users[u].tenant_id) = ev.arg
       /\ users[u].email \in ev.data

\* the payload fields the arguments inp must come back as
RoundTrip(inp, p) ==
  /\ p.user_id = inp.user_id
  /\ p.tenant_id = inp.tenant_id
  /\ p.email = inp.email
  /\ p.role = inp.role
  /\ p.permissions = IF inp.permissions = {} THEN <<>>
                     ELSE CHOOSE l \in inp.permissions : TRUE

C9_StatusTransitions ==
  [][/\ \A d \in DOMAIN docs' \ DOMAIN docs : docs'[d].status = "uploaded"
     /\ \A d \in DOMAIN docs \cap DOMAIN docs' :
          /\ (docs'[d].status \in {"processed", "failed"} /\ docs'[d].status # docs[d].status)
               => docs[d].status = "processing"
          /\ docs'[d].status = "uploaded" => docs[d].status = "uploaded"]_vars

\* two runs of one document are suspended on the vector store at once
C9_Witness ==
  \E r1, r2 \in runs :
    /\ r1.document_id = r2.document_id
    /\ r1.n # r2.n
    /\ r1.pc = "upsert" /\ r2.pc = "upsert"

\* the run r of process_document returns in this step
RunReturns(r) ==
  /\ r \in runs
  /\ ~\E q \in runs' : q.document_id = r.document_id /\ q.n = r.n

\* C10: when a process_document call returns leaving the document "failed",
\* no document_chunks row and no vector point created by that call exists.
C10_FailedLeavesNothing ==
  [][\A r \in runs :
       LET d == ParseUuid(r.document_id, DocIds) IN
       (RunReturns(r) /\ d \in DOMAIN docs' /\ docs'[d].status = "failed")
         => /\ ~\E c \in chunks' : c.document_id = d /\ c.run = r.n
            /\ ~\E p \in points' : p.id[1] = d /\ p.id[2] = r.n]_vars

\* a document whose only processing run failed has chunk rows
C10_Witness ==
  \E d \in DOMAIN docs :
    /\ docs[d].status = "failed"
    /\ ids.runs[d] = 1
    /\ \E c \in chunks : c.document_id = d

\* C11: when delete_document returns true (the route answers 200) the Document
\* row, its chunk rows, its file and every point of that tenant and document
\* are gone; when it returns false for a document of that tenant that exists
\* (the route answers 404), none of them has been removed.
C11_DeleteAllOrNothing ==
  [][\A x \in dels :
       (/\ x \notin dels'
        /\ ev'.route = "DELETE /documents/{id}"
        /\ ev'.cred = x.cred /\ ev'.arg = x.document_id)
       => LET d == ParseUuid(x.document_id, DocIds) IN
          /\ ev'.status = 200 =>
               /\ d \notin DOMAIN docs'
               /\ \A c \in chunks' : c.document_id # d
               /\ x.file_path \notin files'
               /\ \A p \in points' : ~(/\ p.payload.tenant_id = x.tenant_id
                                       /\ p.payload.document_id = x.document_id)
          /\ (ev'.status = 404 /\ get_document(x.document_id, x.tenant_id) # {}) =>
               /\ docs' = docs /\ chunks' = chunks
               /\ files' = files /\ points' = points]_vars

\* a delete answered 200 although the vector store failed, and the document's
\* points are still in the collection
C11_Witness ==
  /\ ev.route = "DELETE /documents/{id}"
  /\ ev.status = 200
  /\ ev.cred \in tokens
  /\ \E p \in points : /\ p.payload.document_id = ev.arg
                       /\ p.payload.tenant_id = ev.cred.payload.tenant_id

C13_AlreadyProcessedNoOp ==
  [][(/\ ev'.route = "POST /documents/{id}/process"
      /\ ev'.status = 200
      /\ \E x \in ev'.data : ~x.force_reprocess
      /\ \E d \in DOMAIN docs : ToString(d) = ev'.arg /\ docs[d].status = "processed")
       => /\ \A x \in ev'.data : x.status = "already_processed"
          /\ runs' = runs /\ ids' = ids
          /\ docs' = docs /\ chunks' = chunks /\ points' = points]_vars

\* a processed document was submitted again without force_reprocess
C13_Witness ==
  /\ ev.route = "POST /documents/{id}/process"
  /\ ev.data = ProcessResponse("already_processed", FALSE)
  /\ \E d \in DOMAIN docs : ToString(d) = ev.arg /\ docs[d].status = "processed"

\* C14: every POST /queries/rag attempt that reaches the handler adds exactly
\* one Query row, owned by the caller's tenant and user: "completed" with
\* exactly one QueryResponse when the answer is 200, otherwise "failed" with
\* the error text in the row's metadata and no QueryResponse, and the client
\* of a failed attempt is answered 500 "RAG query failed".
C14_OneQueryRowPerAttempt ==
  [][(ev'.route = "POST /queries/rag" /\ ev'.reached)
       => LET new == queries' \ queries IN
          /\ queries \subseteq queries'
          /\ Cardinality(new) = 1
          /\ \A q \in new :
               /\ ToString(q.tenant_id) = ev'.cred.payload.tenant_id
               /\ ToString(q.user_id) = ev'.cred.payload.user_id
               /\ IF ev'.status = 200
                  THEN q.status = "completed" /\ q.responses = 1
                  ELSE /\ ev'.status = 500
                       /\ ev'.data = Detail("RAG query failed")
                       /\ q.status = "failed" /\ q.responses = 0
                       /\ "error" \in DOMAIN q.query_metadata]_vars

\* a failed attempt was answered 500 and its only row is "failed" with an
\* empty query_metadata
C14_Witness ==
  /\ ev.route = "POST /queries/rag"
  /\ ev.status = 500
  /\ Cardinality(queries) = 1
  /\ \A q \in queries : q.status = "failed" /\ DOMAIN q.query_metadata = {}

\* what GET /queries/history lists for the owner of a token in table Q
HistoryOf(cred, Q) ==
  {q \in Q : /\ ToString(q.tenant_id) = cred.payload.tenant_id
             /\ ToString(q.user_id) = cred.payload.user_id}

\* C15: every RAG turn a query route serves (POST /queries/rag and
\* POST /queries/rag/stream answered 200) adds a Query row of the calling user
\* and tenant, which GET /queries/history of that user lists afterwards.
C15_TurnsPersisted ==
  [][(/\ ev'.route \in {"POST /queries/rag", "POST /queries/rag/stream"}
      /\ ev'.status = 200)
       => HistoryOf(ev'.cred, queries') \ HistoryOf(ev'.cred, queries) # {}]_vars

\* a streamed turn was served to a user whose history is empty
C15_Witness ==
  /\ ev.route = "POST /queries/rag/stream"
  /\ ev.status = 200
  /\ Len(streams) > 0
  /\ HistoryOf(ev.cred, queries) = {}

StreamDone == [event |-> "data", data |-> <<"[DONE]">>]

StreamError(message) == [event |-> "data", data |-> <<"[ERROR: ", message, "]">>]

IsTerminal(e) == e = StreamDone \/ \E m \in ErrorTexts : e = StreamError(m)

\* the events of st so far: the provider's fragments in provider order, then,
\* once the provider stream is over, one terminal event and nothing else
StreamShape(st) ==
  LET fragments == st.provider.fragments
      n == Len(st.emitted)
  IN /\ n <= Len(fragments) + 1
     /\ \A k \in 1..n : k <= Len(fragments) =>
          st.emitted[k] = [event |-> "data", data |-> <<fragments[k]>>]
     /\ st.closed <=> n = Len(fragments) + 1
     /\ st.closed =>
          st.emitted[n] = IF st.provider.error = "" THEN StreamDone
                          ELSE StreamError(st.provider.error)
     /\ Cardinality({k \in 1..n : IsTerminal(st.emitted[k])}) <= 1

\* C16: a response stream carries the provider's fragments in provider order,
\* one data event each, then exactly one terminal event, [DONE] if and only
\* if the provider stream ended without error and [ERROR: message] otherwise;
\* nothing is emitted after the terminal event.
C16_StreamEvents ==
  [][\A i \in DOMAIN streams' :
       /\ StreamShape(streams'[i])
       /\ (i \in DOMAIN streams /\ streams[i].closed)
            => streams'[i].emitted = streams[i].emitted]_vars

\* a stream whose provider raised after two fragments has been consumed to
\* its end while another response exists
C16_Witness ==
  \E i \in DOMAIN streams :
    /\ streams[i].closed
    /\ streams[i].provider.error = "boom"
    /\ Len(streams[i].emitted) = 3
    /\ Len(streams) > 1

\* two responses to the same request whose provider calls differ only in the
\* message of the exception raised
DifferOnlyInMessage(a, b) ==
  /\ a.tenant_id = b.tenant_id /\ a.user_id = b.user_id
  /\ a.provider.fragments = b.provider.fragments
  /\ a.provider.error # "" /\ b.provider.error # ""
  /\ a.closed /\ b.closed

\* C17: what a route sends to the client does not depend on the text of an
\* internal exception: two executions that differ only in that text send the
\* same events, and a 500 answer carries a fixed message.
C17_NoExceptionTextInOutput ==
  /\ \A i, j \in DOMAIN streams :
       DifferOnlyInMessage(streams[i], streams[j]) => streams[i].emitted = streams[j].emitted
  /\ ev.status = 500 => \A x \in ev.data : x.detail \notin ErrorTexts

\* the same user streamed the same request twice, the provider raised "boom"
\* once and "bang" once after the same fragments, and both streams are closed
C17_Witness ==
  \E i, j \in DOMAIN streams :
    /\ DifferOnlyInMessage(streams[i], streams[j])
    /\ streams[i].provider.error = "boom"
    /\ streams[j].provider.error = "bang"
    /\ streams[i].emitted # streams[j].emitted

\* C18: after any sequence of registrations through POST /auth/register,
\* every row of tenant_users has a role among admin, user and viewer
C18_RoleInSet ==
  \A u \in DOMAIN users : users[u].role \in {"admin", "user", "viewer"}

\* a registration asking for the role "root" was answered 200 and its row is
\* stored with that role
C18_Witness ==
  /\ ev.route = "POST /auth/register"
  /\ ev.status = 200
  /\ \E u \in DOMAIN users : users[u].email \in ev.data /\ users[u].role = "root"

\* C19: for an active tenant, validate_tenant_quota with quota type
\* "documents" returns true exactly when the count (current_count when the
\* caller passes it, otherwise the number of document rows of the tenant) is
\* strictly below max_documents, and it returns true for any other quota type
C19_QuotaStrictlyBelow ==
  (ev.route = "validate_tenant_quota" /\ get_tenant_by_id(ev.arg) # {}) =>
    \A x \in ev.data :
      LET t == CHOOSE i \in DOMAIN tenants : ToString(i) = ev.arg
          rows == {d \in DOMAIN docs : docs[d].tenant_id = t}
          supplied == x.current_count # {}
      IN IF x.quota_type # "documents" THEN x.result = TRUE
         ELSE IF supplied
         THEN x.result = (\E n \in x.current_count : n < tenants[t].max_documents)
         ELSE x.result = (Cardinality(rows) < tenants[t].max_documents)

\* the tenant holds as many documents as max_documents allows and the call,
\* made without current_count, returned false
C19_Witness ==
  /\ ev.route = "validate_tenant_quota"
  /\ get_tenant_by_id(ev.arg) # {}
  /\ \E x \in ev.data, t \in DOMAIN tenants :
       /\ ToString(t) = ev.arg
       /\ x.quota_type = "documents" /\ x.current_count = {}
       /\ Cardinality({d \in DOMAIN docs : docs[d].tenant_id = t}) = tenants[t].max_documents
       /\ tenants[t].max_documents > 0
       /\ x.result = FALSE

\* C20: chunk_text_for_embedding terminates for every text, every
\* max_chunk_size >= 1 and every overlap_size >= 0, an overlap at least as
\* large as the chunk size and a text without a space in the search window
\* included: each pass of the loop leaves start strictly larger, the loop goes
\* on exactly while start is below the text length, and a call that entered
\* the loop leaves it
C20_ChunkerTerminates ==
  /\ [][chunker.running =>
          /\ chunker'.start > chunker.start
          /\ chunker'.running <=> chunker'.start < Len(chunker.text)]_vars
  /\ (chunker.running ~> ~chunker.running)

\* a call with an overlap no smaller than the chunk size, on a text without
\* any space, has left the loop after several passes
C20_Witness ==
  /\ ~chunker.running
  /\ chunker.iterations >= 3
  /\ chunker.ov >= chunker.mcs
  /\ \A i \in DOMAIN chunker.text : chunker.text[i] # " "
  /\ chunker.start >= Len(chunker.text)
  /\ chunker.chunks = chunk_text_for_embedding(chunker.text, chunker.mcs, chunker.ov)

\* C21: for a text longer than max_chunk_size, consecutive chunks returned by
\* chunk_text_for_embedding overlap by between 0 and overlap_size characters:
\* prev.end_char - overlap_size <= next.start_char <= prev.end_char, so no
\* character of the text lies between the ranges of two consecutive chunks
C21_ConsecutiveChunksOverlap ==
  (~chunker.running /\ Len(chunker.text) > chunker.mcs) =>
    \A k \in 1..Len(chunker.chunks) - 1 :
      /\ chunker.chunks[k].end_char - chunker.ov <= chunker.chunks[k + 1].start_char
      /\ chunker.chunks[k + 1].start_char <= chunker.chunks[k].end_char

\* a finished call whose second chunk starts after the first one ends, a
\* letter of the text lying in between
C21_Witness ==
  /\ ~chunker.running
  /\ Len(chunker.text) > chunker.mcs
  /\ \E k \in 1..Len(chunker.chunks) - 1 :
       \E i \in chunker.chunks[k].end_char..chunker.chunks[k + 1].start_char - 1 :
         chunker.text[i + 1] = "a"

\* C22: every point written by add_documents(tenant_id = T, documents)
\* carries payload tenant_id = T and payload document_id equal to the record's
\* document_id, whatever keys the record's metadata map holds, tenant_id and
\* document_id included
C22_IdentifyingFieldsWin ==
  [][(ev'.route = "add_documents" /\ ev'.status = 200) =>
       /\ points' \ points # {}
       /\ \A p \in points' \ points, doc \in ev'.data :
            /\ p.payload.tenant_id = ev'.arg
            /\ p.payload.document_id = doc.document_id
            /\ \A k \in DOMAIN doc.metadata : k \in DOMAIN p.payload]_vars

\* tenant 1 has just stored a record whose metadata names tenant 2: the
\* point written carries tenant 1
C22_Witness ==
  /\ ev.route = "add_documents" /\ ev.status = 200 /\ ev.arg = "1"
  /\ \E doc \in ev.data : "tenant_id" \in DOMAIN doc.metadata /\ doc.metadata.tenant_id = "2"
  /\ \E p \in points : p.id = <<"uuid4", ids.points>> /\ p.payload.tenant_id = "1"

\* C23: after process_document succeeded on a document split into n chunks,
\* the vector-store point of the chunk with zero-based index i carries chunk
\* index i, so that a search result for the chunk reports the chunk_index of
\* its DocumentChunk row, for every i in 0..n-1
C23_PointCarriesChunkIndex ==
  \A d \in DOMAIN docs :
    (docs[d].status = "processed" /\ ~\E r \in runs : r.document_id = ToString(d)) =>
      \A p \in points, c \in chunks :
        ( /\ p.payload.document_id = ToString(d) /\ c.document_id = d
          /\ p.id[2] = c.run
          /\ p.payload.start_char = c.start_char ) =>
        p.payload.chunk_index = c.chunk_index

\* a document was processed into two chunks, and a search has returned the
\* point of the second one: its row has chunk_index 1
C23_Witness ==
  /\ ev.route = "POST /documents/search" /\ ev.status = 200
  /\ \E d \in DOMAIN docs, p \in ev.data, c \in chunks :
       /\ docs[d].status = "processed" /\ docs[d].total_chunks = 2
       /\ p \in points /\ p.payload.document_id = ToString(d)
       /\ c.document_id = d /\ c.run = p.id[2] /\ c.chunk_index = 1
       /\ p.payload.start_char = c.start_char

\* C24: a caller holding no credentials cannot obtain a token that passes the
\* admin role gate: a user with role "admin" comes to exist only through a
\* request made with the token of an admin
C24_AdminOnlyByAdmin ==
  [][\A u \in DOMAIN users' \ DOMAIN users :
       users'[u].role = "admin" =>
         /\ ev'.cred \in tokens
         /\ require_admin_role(ev'.cred, now).status = 200]_vars

\* a user registered without credentials holds a token that passes the gate
C24_Witness ==
  \E tok \in tokens, u \in DOMAIN users :
    /\ u # 1
    /\ tok.payload.user_id = ToString(u)
    /\ users[u].role = "admin"
    /\ require_admin_role(tok, now).status = 200
    /\ ev.route = "POST /auth/tenants" /\ ev.cred = tok /\ ev.status = 200

TenantIdRoutes ==
  {"GET /auth/tenants/{id}", "PUT /auth/tenants/{id}", "DELETE /auth/tenants/{id}",
   "GET /auth/tenants/{id}/stats"}

\* C25: an admin of one tenant cannot read, update, deactivate or fetch the
\* statistics of another tenant through the /auth/tenants/{id} routes: such a
\* request leaves the other tenant's record as it was and returns none of
\* its data
C25_AdminConfinedToOwnTenant ==
  [][\A b \in DOMAIN tenants :
       ( /\ ev'.route \in TenantIdRoutes
         /\ ev'.arg = ToString(b)
         /\ ev'.cred \in tokens
         /\ ev'.cred.payload.tenant_id # ToString(b) ) =>
       /\ tenants'[b] = tenants[b]
       /\ b \notin ev'.data]_vars

\* the admin of tenant 1 has deactivated tenant 2
C25_Witness ==
  /\ ev.route = "DELETE /auth/tenants/{id}" /\ ev.status = 200
  /\ ev.cred \in tokens /\ ev.cred.payload.tenant_id = "1" /\ ev.cred.payload.role = "admin"
  /\ ev.arg = "2"
  /\ 2 \in DOMAIN tenants /\ ~tenants[2].is_active

Authenticable(email, password) ==
  {u \in DOMAIN users : /\ users[u].email = email /\ users[u].is_active
                        /\ verify_password(password, users[u].hashed_password)}

\* C27: authenticate_user(email, password) called without a tenant identifier
\* returns the user whenever there is an active user with that email whose
\* password verifies, also when a user of another tenant has the same email
C27_AuthenticateFindsUser ==
  ev.route = "authenticate_user" =>
    \A x \in ev.data :
      Authenticable(ev.arg, x.password) # {} =>
        x.user # {} /\ x.user \subseteq Authenticable(ev.arg, x.password)

\* two tenants each have a user with the email; the one of tenant 1 is
\* active and the password is the right one, and the call returned nobody
C27_Witness ==
  /\ ev.route = "authenticate_user"
  /\ \E x \in ev.data, u, v \in DOMAIN users :
       /\ u \in Authenticable(ev.arg, x.password)
       /\ users[v].email = ev.arg /\ users[v].tenant_id # users[u].tenant_id
       /\ x.user = {}

\* C28: for a document never processed with force_reprocess = true, under
\* every interleaving of the upload's processing run with POST
\* /documents/{id}/process requests, once the status is "processed" and no
\* run is in flight, the document has as many chunk rows and as many
\* vector-store points as its total_chunks says
C28_NoDuplicateChunks ==
  \A d \in DOMAIN docs :
    (docs[d].status = "processed" /\ ~\E r \in runs : r.document_id = ToString(d)) =>
      /\ Cardinality({c \in chunks : c.document_id = d}) = docs[d].total_chunks
      /\ Cardinality({p \in points : p.payload.document_id = ToString(d)})
           = docs[d].total_chunks

\* two runs of one document have both succeeded: it holds twice the rows and
\* twice the points of its total_chunks
C28_Witness ==
  \E d \in DOMAIN docs :
    /\ docs[d].status = "processed" /\ docs[d].total_chunks = 2
    /\ ~\E r \in runs : r.document_id = ToString(d)
    /\ Cardinality({c \in chunks : c.document_id = d}) = 4
    /\ Cardinality({p \in points : p.payload.document_id = ToString(d)}) = 4

\* C29: if delete_document returns true for a document while a
\* process_document run for it is in flight, then once both have finished no
\* chunk row and no vector-store point of the document remains. Stated where
\* the vector store and the database never fail a delete, so that whatever
\* is left was written by a run that outlived the delete
C29_DeleteLeavesNothing ==
  \A d \in 1..ids.docs :
    ( /\ d \notin DOMAIN docs
      /\ ~\E r \in runs : r.document_id = ToString(d)
      /\ ~\E x \in dels : x.document_id = ToString(d) ) =>
    /\ ~\E c \in chunks : c.document_id = d
    /\ ~\E p \in points : p.payload.document_id = ToString(d)

\* a run that was waiting on the vector store while its document was deleted
\* has just finished: the document is gone and its points are in the store
C29_Witness ==
  /\ ev.route = "process_document"
  /\ \E d \in 1..ids.docs :
       /\ d \notin DOMAIN docs
       /\ ~\E r \in runs : r.document_id = ToString(d)
       /\ ~\E x \in dels : x.document_id = ToString(d)
       /\ \E p \in points : p.payload.document_id = ToString(d)

\* C30: tenant deactivation is permanent: once a tenant's is_active is false
\* no service operation sets it back to true, update_tenant on it fails with
\* NotFound whatever the update map, a further deactivate_tenant on it
\* returns false, and its row and its users' rows are retained
C30_DeactivationPermanent ==
  [][\A t \in DOMAIN tenants :
       ~tenants[t].is_active =>
         /\ t \in DOMAIN tenants' /\ tenants'[t] = tenants[t]
         /\ \A u \in DOMAIN users :
              users[u].tenant_id = t => u \in DOMAIN users' /\ users'[u] = users[u]
         /\ (ev'.route = "update_tenant" /\ ev'.arg = ToString(t)) => ev'.status = 404
         /\ (ev'.route = "deactivate_tenant" /\ ev'.arg = ToString(t)) => ev'.data = {FALSE}]_vars

\* update_tenant was asked to set is_active back on a deactivated tenant
\* that has a user, and failed with NotFound
C30_Witness ==
  /\ ev.route = "update_tenant" /\ ev.status = 404
  /\ \E up \in ev.data : "is_active" \in DOMAIN up /\ up.is_active
  /\ \E t \in DOMAIN tenants :
       /\ ToString(t) = ev.arg /\ ~tenants[t].is_active
       /\ \E u \in DOMAIN users : users[u].tenant_id = t

====
